---- MODULE Spec2Model ----
(***************************************************************************)
(* Model of the content-tracking bot, src/content_automation_bot.py:       *)
(* the orchestrator main(), the two source checkers (generators that main  *)
(* drives lazily), process_item and the two id ledgers.                    *)
(*                                                                         *)
(* A ledger file is modelled by the set of its lines: the program reads a  *)
(* ledger only through load_ids_from_file, which returns set(lines), and   *)
(* item ids (YouTube video ids, feedparser entry ids/links) are non-empty  *)
(* tokens without surrounding whitespace, on which line.strip() changes    *)
(* nothing.  Feed entries carry the id, title and link the checkers read.  *)
(*                                                                         *)
(* The functions that are checked on their own have a specification each:  *)
(* the transcript resolver (SpecResolver, SpecMatch), the resolvers that   *)
(* download audio (SpecAudio), the arguments and the date filter           *)
(* (SpecArgs), get_article_text (SpecArticle), the guards of the           *)
(* summarizer and of the broadcast (SpecOutput), and, in                   *)
(* src/module/summarize_video.py, _call_transcript_method (SpecCall),       *)
(* get_youtube_content (SpecContent) and load_whisper_model (SpecWhisper). *)
(* SpecMainPy is the older orchestrator of src/main.py with its single     *)
(* ledger; SpecTwin makes two runs of main side by side that differ in     *)
(* their failed ledgers only.                                              *)
(***************************************************************************)
EXTENDS Integers, Sequences, FiniteSets, TLC

(* ------------------------------ bounds -------------------------------- *)
NumIds == 2
MaxItems == 2
MaxSources == 2
MaxRuns == 2
MaxRetries == 3
MaxCalls == 2
MaxTracks == 3

Ids == 1..NumIds

None == "None"

(* ------------------------- collaborators' data ------------------------ *)
\* config.json, by the keys it holds with a usable value (its 'sources' are
\* drawn when main's loop reaches them, see main_call_checker)
ConfigKeys == {"YOUTUBE_API_KEY", "LLM_API_KEY", "LINE_CHANNEL_ACCESS_TOKEN"}

\* a source definition: type is "none" when the 'type' key is missing,
\* named is FALSE when the 'name' key is missing
SourceDefs ==
  { [type |-> "youtube", enabled |-> TRUE,  named |-> TRUE],
    [type |-> "rss",     enabled |-> TRUE,  named |-> TRUE],
    [type |-> "rss",     enabled |-> FALSE, named |-> TRUE],
    [type |-> "none",    enabled |-> TRUE,  named |-> TRUE],
    [type |-> "rss",     enabled |-> TRUE,  named |-> FALSE] }

\* before main's loop has taken its first source
NoSource == [type |-> "none", enabled |-> FALSE, named |-> FALSE]

Configs == { [keys |-> k, loaded |-> TRUE] : k \in SUBSET ConfigKeys }

\* an entry of a search response or of a feed; pub says how its publish time
\* relates to the date filter of the run: inside, outside, or not present
Entries == [id : Ids, pub : {"in", "out", "none"}]

\* before the loop over the items has taken its first item
NoEntry == [id |-> 0, pub |-> "none"]

\* what load_config returns when config.json is missing or malformed
NoConfig == [keys |-> {}, loaded |-> FALSE]

VARIABLES
  processed_ids_txt,  \* PROCESSED_IDS_FILE, the set of its lines
  failed_ids_txt,     \* FAILED_IDS_FILE, the set of its lines
  pc,                 \* where main (or the checker it drives) stands
  config,             \* main's config
  filtered,           \* args.year and args.month are both given
  processed_ids,      \* main's processed_ids, loaded once
  failed_ids,         \* main's failed_ids, loaded once
  si,                 \* number of sources main's loop has taken
  source,             \* main's `source`
  taken,              \* number of items the checkers have taken in this run
  entry,              \* the checker's `item` / `entry`
  summary,            \* process_item's summary (its kind)
  steps,              \* calls process_item has made for the current item
  runs,               \* number of times main has been started
  start_processed,    \* processed ledger when the current run started
  start_failed,       \* failed ledger when the current run started
  returned,           \* ids of the items the checkers met in this run
  unresolved,         \* ids for which the resolver returned None in this run
  completed,          \* ids whose summarize, broadcast, persist all returned
  delivered,          \* ids broadcast (HTTP 200) at least once, over all runs
  repeated,           \* ids broadcast more than once, over all runs
  pending,            \* ids whose resolver failed in an earlier run and that no
                      \* run has met inside its date filter since
  \* get_youtube_transcript_with_fallback, called on its own
  rpc,                \* where the resolver stands
  max_retries,        \* its max_retries
  attempt,            \* `attempt` of get_youtube_transcript_improved_v2
  transcript_list,    \* `transcript_list` (its kind)
  exc,                \* str(e) of the exception the retry loop has caught
  transcript,         \* `transcript` of get_youtube_transcript_with_fallback
  trace,              \* the calls the resolver has made on its collaborators
  \* the resolvers that download audio, called on their own
  apc,                \* where the resolver stands
  resolver,           \* which of them is running
  video_id,           \* its video_id
  audio_file,         \* its `audio_file`: the path of the download
  disk,               \* the audio files on disk
  stt,                \* the text the transcription has produced
  audio_calls,        \* number of calls made so far
  \* main's check of its arguments and the date filter of the checkers
  cpc,                \* where the invocation stands
  args,               \* args.year, args.month, args.date
  published_after,    \* `published_after` of check_youtube_channel
  published_before,   \* `published_before` of check_youtube_channel
  entry_time,         \* entry.published_parsed of a feed entry
  kept,               \* the entry has passed the filter of check_rss_feed
  \* get_article_text, called on its own
  gpc,                \* where get_article_text stands
  article_retries,    \* its max_retries
  article_attempt,    \* its `attempt`
  soup,               \* the page the GET has answered with, parsed
  article_text,       \* what get_article_text returns
  gets,               \* the delays and GETs it has made, with their outcome
  \* get_summary_from_llm and broadcast_line_message, called on their own
  opc,                \* which of the two has returned
  api_key,            \* `api_key` of get_summary_from_llm
  access_token,       \* `access_token` of broadcast_line_message
  llm_summary,        \* what get_summary_from_llm returns (its kind)
  net,                \* the requests sent to the LLM service and to LINE
  \* the search of get_youtube_transcript_improved_v2 in a transcript listing
  mpc,                \* where the search stands
  lang_i,             \* how many of preferred_langs the loop has taken
  found,              \* its `transcript_list` (its kind)
  lookups,            \* the searches made, with their outcome
  \* summarize_video._call_transcript_method, called on its own
  ctm,                \* its arguments and what came of the call
  \* summarize_video.get_youtube_content, called on its own
  ypc,                \* where get_youtube_content stands
  title,              \* its `title`
  transcripts,        \* its `transcripts`: the tracks of the listing
  ti,                 \* how many tracks the loop of line 178 has taken
  available_languages,\* its `available_languages`
  transcript_obj,     \* its `transcript_obj`: the track's place, 0 for None
  yresult,            \* the triple it returns
  ylog,               \* the calls it has made, with their outcome
  \* the orchestrator of src/main.py
  m_pc,               \* where its main, checker or process_item stands
  m_processed_txt,    \* its PROCESSED_IDS_FILE: the ids it holds
  m_processed_ids,    \* `processed_ids` of its main
  m_runs,             \* how many runs of it have ended
  m_si,               \* how many sources the loop of its main has taken
  m_taken,            \* how many entries the running checker has taken
  m_entry,            \* the entry taken last, and what the resolver gave
  m_unresolved,       \* per id: the run where the resolver last gave nothing
  m_delivered,        \* the ids whose message was broadcast
  \* summarize_video.load_whisper_model and its caller
  wpc,                \* where transcribe_audio_with_whisper stands
  WHISPER_MODEL,      \* `_WHISPER_MODEL`: 0 for None, else the k-th model
  WHISPER_IMPORT_FAILED, \* `_WHISPER_IMPORT_FAILED`
  loads,              \* how often whisper.load_model has been called
  whisper_calls,      \* the calls made: what each attempted and gave
  \* two runs of main of the bot, given the same and made side by side
  twin,               \* the state of either run
  twin_si,            \* how many sources the runs have taken
  twin_taken          \* how many entries the runs have taken

ledgers == <<processed_ids_txt, failed_ids_txt>>
mainvars == <<config, filtered, processed_ids, failed_ids, si, source, taken,
              entry>>
itemvars == <<summary, steps>>
runlog == <<returned, unresolved, completed>>
sent == <<delivered, repeated>>
history == <<runs, start_processed, start_failed, sent, pending>>
botvars == <<ledgers, pc, mainvars, itemvars, runlog, history>>
resolvervars == <<rpc, max_retries, attempt, transcript_list, exc, transcript,
                  trace>>
audiovars == <<apc, resolver, video_id, audio_file, disk, stt, audio_calls>>
clivars == <<cpc, args, published_after, published_before, entry_time, kept>>
articlevars == <<gpc, article_retries, article_attempt, soup, article_text,
                 gets>>
outputvars == <<opc, api_key, access_token, llm_summary, net>>
matchvars == <<mpc, lang_i, found, lookups>>
callvars == <<ctm>>
contentvars == <<ypc, title, transcripts, ti, available_languages,
                 transcript_obj, yresult, ylog>>
mainpyvars == <<m_pc, m_processed_txt, m_processed_ids, m_runs, m_si, m_taken,
                m_entry, m_unresolved, m_delivered>>
whispervars == <<wpc, WHISPER_MODEL, WHISPER_IMPORT_FAILED, loads,
                 whisper_calls>>
twinvars == <<twin, twin_si, twin_taken>>
aux == <<resolvervars, audiovars, clivars, articlevars, outputvars, matchvars,
         callvars, contentvars, mainpyvars, whispervars, twinvars>>
notresolver == <<botvars, audiovars, clivars, articlevars, outputvars,
                 matchvars, callvars, contentvars,
                 mainpyvars, whispervars, twinvars>>
notaudio == <<botvars, resolvervars, clivars, articlevars, outputvars,
              matchvars, callvars, contentvars,
              mainpyvars, whispervars, twinvars>>
notcli == <<botvars, resolvervars, audiovars, articlevars, outputvars,
            matchvars, callvars, contentvars,
            mainpyvars, whispervars, twinvars>>
notarticle == <<botvars, resolvervars, audiovars, clivars, outputvars,
                matchvars, callvars, contentvars,
                mainpyvars, whispervars, twinvars>>
notoutput == <<botvars, resolvervars, audiovars, clivars, articlevars,
               matchvars, callvars, contentvars,
               mainpyvars, whispervars, twinvars>>
notmatch == <<botvars, resolvervars, audiovars, clivars, articlevars,
              outputvars, callvars, contentvars,
              mainpyvars, whispervars, twinvars>>
notcall == <<botvars, resolvervars, audiovars, clivars, articlevars,
             outputvars, matchvars, contentvars,
             mainpyvars, whispervars, twinvars>>
notcontent == <<botvars, resolvervars, audiovars, clivars, articlevars,
                outputvars, matchvars, callvars,
                mainpyvars, whispervars, twinvars>>
notmainpy == <<botvars, resolvervars, audiovars, clivars, articlevars,
               outputvars, matchvars, callvars, contentvars, whispervars,
               twinvars>>
notwhisper == <<botvars, resolvervars, audiovars, clivars, articlevars,
                outputvars, matchvars, callvars, contentvars, mainpyvars,
                twinvars>>
nottwin == <<botvars, resolvervars, audiovars, clivars, articlevars,
             outputvars, matchvars, callvars, contentvars, mainpyvars,
             whispervars>>
vars == <<botvars, aux>>

(* ------------------------------ ledgers ------------------------------- *)
\* the lines of the file are not read
load_ids_from_file_empty(file) == {}

\* lines 92-97
load_ids_from_file(file) == file

\* the file is opened with mode 'w' instead of 'a'
save_id_to_file_truncating(item_id, file) == {item_id}

\* lines 100-103
save_id_to_file(item_id, file) == file \cup {item_id}

\* the file is rewritten without any id
remove_id_from_file_clearing(item_id, file) == {}

\* lines 106-113
remove_id_from_file(item_id, file) ==
  LET ids == load_ids_from_file(file)
  IN  IF item_id \in ids THEN ids \ {item_id} ELSE file

(* --------------------------- initial state ---------------------------- *)
\* no path: `audio_file` before the download
NoFile == [dir |-> None, id |-> 0]

\* no publish time: None, or an entry without published_parsed
NoTime == [year |-> 0, month |-> 0, day |-> 0, minute |-> 0]

\* the selectors of get_article_text, lines 396-399
content_selectors ==
  <<"article", "main", ".content", ".post-content", ".entry-content",
    "#content", ".article-body">>

\* soup.select_one finds no element
NoElement == [matched |-> FALSE, paragraphs |-> <<>>]

\* a text that is None
NoText == <<None>>

\* a run of main that has not begun
RunIdle ==
  [pc |-> "idle", processed_txt |-> {}, failed_txt |-> {},
   processed_ids |-> {}, failed_ids |-> {}, events |-> <<>>]

\* what a call does: it returns a value
Returned(v) == [kind |-> "returns", type |-> None, msg |-> <<>>, value |-> v]

\* what a call does: it raises an exception of this type with this message
Raised(type, m) == [kind |-> "raises", type |-> type, msg |-> m, value |-> None]

\* no function is called on its own
AuxIdle ==
  \* get_youtube_transcript_with_fallback has not been called
  /\ rpc = "idle"
  /\ max_retries = 0
  /\ attempt = 0
  /\ transcript_list = None
  /\ exc = <<>>
  /\ transcript = None
  /\ trace = <<>>
  \* no resolver that downloads audio has been called
  /\ apc = "idle"
  /\ resolver = None
  /\ video_id = 0
  /\ audio_file = NoFile
  /\ disk = {}
  /\ stt = None
  /\ audio_calls = 0
  \* main has not parsed its arguments
  /\ cpc = "idle"
  /\ args = [year |-> <<>>, month |-> <<>>, date |-> <<>>]
  /\ published_after = NoTime
  /\ published_before = NoTime
  /\ entry_time = NoTime
  /\ kept = FALSE
  \* get_article_text is not running
  /\ gpc = "idle"
  /\ article_retries = 0
  /\ article_attempt = 0
  /\ soup = [selector \in {content_selectors[i] : i \in 1..7} |-> NoElement]
  /\ article_text = NoText
  /\ gets = <<>>
  \* neither get_summary_from_llm nor broadcast_line_message has been called
  /\ opc = "idle"
  /\ api_key = NoText
  /\ access_token = NoText
  /\ llm_summary = None
  /\ net = <<>>
  \* the search in a listing has not begun
  /\ mpc = "idle"
  /\ lang_i = 0
  /\ found = None
  /\ lookups = <<>>
  \* _call_transcript_method has not been called
  /\ ctm = [called |-> FALSE,
           owner |-> [is_class |-> FALSE, attr |-> "missing"],
           direct |-> Returned(None), bound |-> Returned(None),
           instantiation |-> "ok",
           outcome |-> Returned(None), instances |-> 0, runs |-> 0]
  \* get_youtube_content is not running
  /\ ypc = "idle"
  /\ title = None
  /\ transcripts = <<>>
  /\ ti = 0
  /\ available_languages = <<>>
  /\ transcript_obj = 0
  /\ yresult = [title |-> None, transcript |-> NoText, message |-> <<>>]
  /\ ylog = <<>>
  \* src/main.py has not run: its ledger does not exist
  /\ m_pc = "idle"
  /\ m_processed_txt = {}
  /\ m_processed_ids = {}
  /\ m_runs = 0
  /\ m_si = 0
  /\ m_taken = 0
  /\ m_entry = [id |-> 0, inside |-> FALSE, resolver |-> "not called"]
  /\ m_unresolved = [i \in Ids |-> 0]
  /\ m_delivered = {}
  \* summarize_video.py lines 34-35: the module has just been imported
  /\ wpc = "idle"
  /\ WHISPER_MODEL = 0
  /\ WHISPER_IMPORT_FAILED = FALSE
  /\ loads = 0
  /\ whisper_calls = <<>>
  \* the two runs have not begun
  /\ twin = <<RunIdle, RunIdle>>
  /\ twin_si = 0
  /\ twin_taken = 0

\* before the first run: any two disjoint ledgers and any config.json,
\* nothing loaded
InitMain ==
  /\ processed_ids_txt \in SUBSET Ids
  /\ failed_ids_txt \in SUBSET Ids
  /\ processed_ids_txt \cap failed_ids_txt = {}
  /\ pc = "idle"
  /\ config \in Configs \cup {NoConfig}
  /\ filtered = FALSE
  /\ processed_ids = {}
  /\ failed_ids = {}
  /\ si = 0
  /\ source = NoSource
  /\ taken = 0
  /\ entry = NoEntry
  /\ summary = None
  /\ steps = <<>>
  /\ runs = 0
  /\ start_processed = processed_ids_txt
  /\ start_failed = failed_ids_txt
  /\ returned = {} /\ unresolved = {} /\ completed = {}
  /\ delivered = {}
  /\ repeated = {}
  /\ pending = {}

\* the bot is about to be started; no function is called on its own
Init ==
  /\ InitMain
  /\ AuxIdle

\* the bot is not started: no ledger file, no config.json
MainIdle ==
  /\ InitMain
  /\ processed_ids_txt = {}
  /\ failed_ids_txt = {}
  /\ config = NoConfig

\* only one function is called, on its own
InitIdle ==
  /\ MainIdle
  /\ AuxIdle

(* ------------------------------- main --------------------------------- *)
\* main goes on with whatever load_config has returned
LoadFailed_ignored(cfg) == FALSE

\* line 682: `if not config: return`
LoadFailed(cfg) == cfg = NoConfig

\* lines 665-687: a new process parses its arguments, loads the configuration
\* and, unless that failed, the two ledgers
StartMain ==
  /\ UNCHANGED aux
  /\ runs' = runs + 1
  /\ filtered' \in BOOLEAN
  /\ IF LoadFailed(config)
       THEN /\ pc' = "done"
            /\ processed_ids' = {}
            /\ failed_ids' = {}
       ELSE /\ pc' = "sources"
            /\ processed_ids' = load_ids_from_file(processed_ids_txt)
            /\ failed_ids' = load_ids_from_file(failed_ids_txt)
  /\ si' = 0 /\ source' = NoSource /\ taken' = 0 /\ entry' = NoEntry
  /\ summary' = None /\ steps' = <<>>
  /\ start_processed' = processed_ids_txt
  /\ start_failed' = failed_ids_txt
  /\ returned' = {} /\ unresolved' = {} /\ completed' = {}
  /\ pending' = pending \cup unresolved
  /\ UNCHANGED <<ledgers, config, sent>>

\* the first run
main_start ==
  /\ pc = "idle"
  /\ StartMain

\* a later run: the program is started again after main has returned or an
\* exception has ended it
main_again ==
  /\ pc \in {"done", "crashed"}
  /\ runs < MaxRuns
  /\ StartMain

\* The sources of config.json are drawn when main's loop reaches them: at
\* most MaxSources of them, any definitions in any order.

\* line 689: the loop over config['sources'] has ended; main returns
main_return ==
  /\ pc = "sources"
  /\ UNCHANGED aux
  /\ pc' = "done"
  /\ UNCHANGED <<ledgers, mainvars, itemvars, runlog, history>>

\* line 690: a source that is not enabled is passed over
main_skip_disabled ==
  /\ pc = "sources"
  /\ UNCHANGED aux
  /\ si < MaxSources
  /\ \E src \in SourceDefs : ~src.enabled
  /\ si' = si + 1
  /\ UNCHANGED <<ledgers, pc, config, filtered, processed_ids, failed_ids,
                 source, taken, entry, itemvars, runlog, history>>

\* lines 693, 695: source['type'] and config['YOUTUBE_API_KEY'] are plain
\* subscripts; a missing key raises KeyError, which nothing in main catches
SubscriptRaises(src, cfg) ==
  \/ src.type = "none"
  \/ src.type = "youtube" /\ "YOUTUBE_API_KEY" \notin cfg.keys

main_key_error ==
  /\ pc = "sources"
  /\ UNCHANGED aux
  /\ si < MaxSources
  /\ \E src \in SourceDefs :
       /\ src.enabled
       /\ SubscriptRaises(src, config)
       /\ source' = src
  /\ si' = si + 1
  /\ pc' = "crashed"
  /\ UNCHANGED <<ledgers, config, filtered, processed_ids, failed_ids, taken,
                 entry, itemvars, runlog, history>>

\* lines 693-702: main creates the checker's generator and starts to iterate
main_call_checker ==
  /\ pc = "sources"
  /\ UNCHANGED aux
  /\ si < MaxSources
  /\ \E src \in SourceDefs :
       /\ src.enabled
       /\ ~SubscriptRaises(src, config)
       /\ source' = src
  /\ si' = si + 1
  /\ pc' = "discover"
  /\ UNCHANGED <<ledgers, config, filtered, processed_ids, failed_ids, taken,
                 entry, itemvars, runlog, history>>

(* --------------------------- source checkers -------------------------- *)
\* The items of a search response or of a feed are drawn when the checker's
\* loop reaches them: at most MaxItems per run, any ids in any order.

\* the items a source can hold.  The YouTube query carries publishedAfter /
\* publishedBefore (lines 566-577), so its items lie inside the window; an
\* item of a run without a date filter counts as inside
ItemsOf(src, flt) ==
  IF src.type = "rss" /\ flt THEN Entries
  ELSE { e \in Entries : e.pub = "in" }

\* the generator has ended (its loop ran out, or its except clause caught an
\* exception): main's `for item in new_items` ends and main takes the next
\* source
CheckerEnds ==
  /\ pc' = "sources"
  /\ source' = NoSource
  /\ entry' = NoEntry

\* lines 525, 618: print(source['name']) stands before the try; the KeyError
\* of a source without a name leaves the generator and main
check_name_error ==
  /\ pc = "discover"
  /\ UNCHANGED aux
  /\ ~source.named
  /\ pc' = "crashed"
  /\ UNCHANGED <<ledgers, mainvars, itemvars, runlog, history>>

\* lines 527-578, 620: the search request / feedparser.parse returns
check_discover ==
  /\ pc = "discover"
  /\ UNCHANGED aux
  /\ source.named
  /\ pc' = "entries"
  /\ UNCHANGED <<ledgers, mainvars, itemvars, runlog, history>>

\* lines 607-608, 661-662: discovery raised (build, the request, a missing
\* 'channel_id' or 'url'); the checker logs it and ends
check_discover_raises ==
  /\ pc = "discover"
  /\ UNCHANGED aux
  /\ source.named
  /\ CheckerEnds
  /\ UNCHANGED <<ledgers, config, filtered, processed_ids, failed_ids, si,
                 taken, itemvars, runlog, history>>

\* lines 580, 625: the loop over the items has run out
check_exhausted ==
  /\ pc = "entries"
  /\ UNCHANGED aux
  /\ CheckerEnds
  /\ UNCHANGED <<ledgers, config, filtered, processed_ids, failed_ids, si,
                 taken, itemvars, runlog, history>>

\* lines 580-581, 625-626: the loop takes the next item
check_next_entry ==
  /\ pc = "entries"
  /\ UNCHANGED aux
  /\ taken < MaxItems
  /\ \E e \in ItemsOf(source, filtered) :
       /\ entry' = e
       /\ returned' = returned \cup {e.id}
  /\ taken' = taken + 1
  /\ pc' = "check"
  /\ UNCHANGED <<ledgers, config, filtered, processed_ids, failed_ids, si,
                 source, itemvars, unresolved, completed, history>>

\* the membership test made on the failed ids instead
AlreadyProcessed_failed(item_id, ids) == item_id \in failed_ids

\* ids that failed before are passed over as well
AlreadyProcessed_or_failed(item_id, ids) ==
  item_id \in ids \/ item_id \in failed_ids

\* lines 582, 627
AlreadyProcessed(item_id, ids) == item_id \in ids

\* the filter is applied to no entry
DroppedByFilter_never(src, e, flt) == FALSE

\* lines 631-639: only check_rss_feed filters per entry
DroppedByFilter(src, e, flt) ==
  src.type = "rss" /\ flt /\ e.pub # "in"

\* the entry's publish time is inside the date filter of the run
InsideFilter(e, flt) == flt => e.pub = "in"

\* the loop goes round: `continue`, or the end of the loop body
NextEntry ==
  /\ pc' = "entries"
  /\ entry' = NoEntry

\* lines 582-583, 627-628: `continue` on an id of processed_ids
check_skip_processed ==
  /\ pc = "check"
  /\ UNCHANGED aux
  /\ AlreadyProcessed(entry.id, processed_ids)
  /\ NextEntry
  /\ pending' = IF InsideFilter(entry, filtered) THEN pending \ {entry.id}
                ELSE pending
  /\ UNCHANGED <<ledgers, config, filtered, processed_ids, failed_ids, si,
                 source, taken, itemvars, runlog, runs, start_processed,
                 start_failed, sent>>

\* lines 631-639: `continue` on an entry outside the date filter
check_filter_drop ==
  /\ pc = "check"
  /\ UNCHANGED aux
  /\ ~AlreadyProcessed(entry.id, processed_ids)
  /\ DroppedByFilter(source, entry, filtered)
  /\ NextEntry
  /\ UNCHANGED <<ledgers, config, filtered, processed_ids, failed_ids, si,
                 source, taken, itemvars, runlog, history>>

\* lines 585-590, 641-644: the resolver is called on the entry
check_call_resolver ==
  /\ pc = "check"
  /\ UNCHANGED aux
  /\ ~AlreadyProcessed(entry.id, processed_ids)
  /\ ~DroppedByFilter(source, entry, filtered)
  /\ pc' = "resolve"
  /\ pending' = pending \ {entry.id}
  /\ UNCHANGED <<ledgers, mainvars, itemvars, runlog, runs, start_processed,
                 start_failed, sent>>

\* what get_youtube_transcript_with_fallback / get_article_text hand back:
\* a non-empty text, or None
ResolverResults == {"text", None}

\* lines 592-598, 646-652: the resolver returned content; the checker yields
\* the item and main calls process_item on it (lines 702-704)
check_yield ==
  /\ pc = "resolve"
  /\ UNCHANGED aux
  /\ "text" \in ResolverResults
  /\ pc' = "summarize"
  /\ steps' = <<>>
  /\ summary' = None
  /\ UNCHANGED <<ledgers, mainvars, runlog, history>>

\* lines 599-600, 653-654: the resolver returned None
check_unresolved ==
  /\ pc = "resolve"
  /\ UNCHANGED aux
  /\ None \in ResolverResults
  /\ unresolved' = unresolved \cup {entry.id}
  /\ pc' = "mark_failed"
  /\ UNCHANGED <<ledgers, mainvars, itemvars, returned, completed, history>>

\* lines 601-605, 655-659: the id is written to the failed ledger; after the
\* delay the loop takes the next entry
check_mark_failed ==
  /\ pc = "mark_failed"
  /\ UNCHANGED aux
  /\ failed_ids_txt' = save_id_to_file(entry.id, failed_ids_txt)
  /\ NextEntry
  /\ UNCHANGED <<processed_ids_txt, config, filtered, processed_ids,
                 failed_ids, si, source, taken, itemvars, runlog, history>>

\* lines 601, 607-608 / 655, 661-662: the write to the failed ledger raised
\* (the file cannot be opened); the checker's except clause catches it and
\* the checker ends
check_mark_failed_raises ==
  /\ pc = "mark_failed"
  /\ UNCHANGED aux
  /\ CheckerEnds
  /\ UNCHANGED <<ledgers, config, filtered, processed_ids, failed_ids, si,
                 taken, itemvars, runlog, history>>

(* ----------------------------- process_item --------------------------- *)
\* the id is marked processed before the markdown file is written
process_item_calls_early_mark ==
  <<"summarize", "broadcast", "save_processed", "persist", "remove_failed">>

\* lines 505-514: the calls of process_item, in the order it makes them
process_item_calls ==
  <<"summarize", "broadcast", "persist", "save_processed", "remove_failed">>

IndexOf(seq, x) == CHOOSE i \in DOMAIN seq : seq[i] = x

\* where control is after call c of process_item has returned; after the
\* last one process_item returns, main sleeps (line 705) and resumes the
\* generator, which sleeps (lines 605, 659) and takes the next entry
AfterCall(c) ==
  LET i == IndexOf(process_item_calls, c)
  IN  IF i < Len(process_item_calls) THEN process_item_calls[i + 1]
      ELSE "entries"

\* lines 423-454: the summary get_summary_from_llm returns, by kind.
\* has_key: the key is neither absent, empty nor a placeholder; llm: what
\* the client library does when it is used
LlmBehaviours == {"import_error", "raises", "empty", "text"}

\* no except clause around the call of the client: nothing is returned
get_summary_from_llm_unguarded(has_key, llm) ==
  IF ~has_key THEN "not_configured"
  ELSE IF llm = "import_error" THEN "library_missing"
  ELSE IF llm = "raises" THEN None
  ELSE IF llm = "empty" THEN "no_summary"
  ELSE "summary"

get_summary_from_llm(has_key, llm) ==
  IF ~has_key THEN "not_configured"
  ELSE IF llm = "import_error" THEN "library_missing"
  ELSE IF llm = "raises" THEN "call_failed"
  ELSE IF llm = "empty" THEN "no_summary"
  ELSE "summary"

\* line 506
process_item_summarize ==
  /\ pc = "summarize"
  /\ UNCHANGED aux
  /\ \E llm \in LlmBehaviours :
       summary' = get_summary_from_llm("LLM_API_KEY" \in config.keys, llm)
  /\ steps' = Append(steps, "summarize")
  /\ pc' = AfterCall("summarize")
  /\ UNCHANGED <<ledgers, mainvars, runlog, history>>

\* lines 462-482: what becomes of the POST of broadcast_line_message
PostResults == {"200", "refused", "raises"}

\* lines 507-509, 462-482: without a token nothing is sent; with one, a POST
\* is sent, and whatever comes of it broadcast_line_message returns
process_item_broadcast ==
  /\ pc = "broadcast"
  /\ UNCHANGED aux
  /\ IF "LINE_CHANNEL_ACCESS_TOKEN" \notin config.keys
       THEN UNCHANGED sent
       ELSE \E r \in PostResults :
              IF r = "200"
                THEN /\ delivered' = delivered \cup {entry.id}
                     /\ repeated' = IF entry.id \in delivered
                                      THEN repeated \cup {entry.id}
                                      ELSE repeated
                ELSE UNCHANGED sent
  /\ steps' = Append(steps, "broadcast")
  /\ pc' = AfterCall("broadcast")
  /\ UNCHANGED <<ledgers, mainvars, summary, runlog, runs, start_processed,
                 start_failed, pending>>

\* lines 510, 485-497: the markdown file is written
process_item_persist ==
  /\ pc = "persist"
  /\ UNCHANGED aux
  /\ completed' = completed \cup {entry.id}
  /\ steps' = Append(steps, "persist")
  /\ pc' = AfterCall("persist")
  /\ UNCHANGED <<ledgers, mainvars, summary, returned, unresolved, history>>

\* line 512
process_item_save_processed ==
  /\ pc = "save_processed"
  /\ UNCHANGED aux
  /\ processed_ids_txt' = save_id_to_file(entry.id, processed_ids_txt)
  /\ steps' = Append(steps, "save_processed")
  /\ pc' = AfterCall("save_processed")
  /\ UNCHANGED <<failed_ids_txt, mainvars, summary, runlog, history>>

\* line 513, then the return of process_item and the delays of lines 705 and
\* 605 / 659
process_item_remove_failed ==
  /\ pc = "remove_failed"
  /\ UNCHANGED aux
  /\ failed_ids_txt' = remove_id_from_file(entry.id, failed_ids_txt)
  /\ pc' = AfterCall("remove_failed")
  /\ entry' = NoEntry
  /\ summary' = None
  /\ steps' = <<>>
  /\ UNCHANGED <<processed_ids_txt, config, filtered, processed_ids,
                 failed_ids, si, source, taken, runlog, history>>

\* lines 486-491, 102, 108-111: makedirs or open raised in save_to_markdown,
\* save_id_to_file or remove_id_from_file; process_item and main catch
\* nothing, the exception leaves main
process_item_raises ==
  /\ pc \in {"persist", "save_processed", "remove_failed"}
  /\ UNCHANGED aux
  /\ pc' = "crashed"
  /\ UNCHANGED <<ledgers, mainvars, itemvars, runlog, history>>

(* --------------------------- specification ---------------------------- *)
\* one run of the program
Next ==
  \/ main_start
  \/ main_return
  \/ main_skip_disabled
  \/ main_key_error
  \/ main_call_checker
  \/ check_name_error
  \/ check_discover
  \/ check_discover_raises
  \/ check_exhausted
  \/ check_next_entry
  \/ check_skip_processed
  \/ check_filter_drop
  \/ check_call_resolver
  \/ check_yield
  \/ check_unresolved
  \/ check_mark_failed
  \/ check_mark_failed_raises
  \/ process_item_summarize
  \/ process_item_broadcast
  \/ process_item_persist
  \/ process_item_save_processed
  \/ process_item_remove_failed
  \/ process_item_raises

Spec == Init /\ [][Next]_vars

\* a fresh installation: no ledger file yet, and a config.json in which only
\* the YouTube key has been filled in (the LLM key and the LINE token are
\* still placeholders)
InitRuns ==
  /\ Init
  /\ processed_ids_txt = {}
  /\ failed_ids_txt = {}
  /\ config = [keys |-> {"YOUTUBE_API_KEY"}, loaded |-> TRUE]

\* up to MaxRuns runs, one after the other
NextRuns == Next \/ main_again

SpecRuns == InitRuns /\ [][NextRuns]_vars

(* ------------------------ transcript resolver ------------------------- *)
\* get_youtube_transcript_with_fallback (lines 334-377) and the retry loop of
\* get_youtube_transcript_improved_v2 (lines 149-223), called on their own
\* with any max_retries.  A message str(e) is the sequence of its characters.

ASCII_UPPERCASE ==
  <<"A", "B", "C", "D", "E", "F", "G", "H", "I", "J", "K", "L", "M",
    "N", "O", "P", "Q", "R", "S", "T", "U", "V", "W", "X", "Y", "Z">>

ASCII_LOWERCASE ==
  <<"a", "b", "c", "d", "e", "f", "g", "h", "i", "j", "k", "l", "m",
    "n", "o", "p", "q", "r", "s", "t", "u", "v", "w", "x", "y", "z">>

\* str.lower, line 214
lower(message) ==
  [i \in 1..Len(message) |->
     IF \E j \in 1..26 : ASCII_UPPERCASE[j] = message[i]
       THEN ASCII_LOWERCASE[CHOOSE j \in 1..26 : ASCII_UPPERCASE[j] = message[i]]
       ELSE message[i]]

\* `k in msg` on strings, line 216
Contains(k, message) ==
  \E i \in 1..(Len(message) - Len(k) + 1) :
    SubSeq(message, i, i + Len(k) - 1) = k

\* the keywords of get_youtube_transcript_improved, lines 141-142
PermanentKeywords_v1 ==
  { <<"d", "i", "s", "a", "b", "l", "e", "d">>,
    <<"n", "o", "t", " ", "a", "v", "a", "i", "l", "a", "b", "l", "e">>,
    <<"n", "o", " ", "t", "r", "a", "n", "s", "c", "r", "i", "p", "t">> }

\* lines 216-219
PermanentKeywords ==
  { <<"d", "i", "s", "a", "b", "l", "e", "d">>,
    <<"n", "o", "t", " ", "a", "v", "a", "i", "l", "a", "b", "l", "e">>,
    <<"n", "o", " ", "t", "r", "a", "n", "s", "c", "r", "i", "p", "t">>,
    <<"p", "r", "i", "v", "a", "t", "e">>,
    <<"u", "n", "a", "v", "a", "i", "l", "a", "b", "l", "e">>,
    <<"n", "o", "t", " ", "f", "o", "u", "n", "d">> }

\* every exception ends the loop
IsPermanent_always(message) == TRUE

\* lines 214-219: the message names a condition that a retry cannot change
IsPermanent(message) ==
  \E k \in PermanentKeywords : Contains(k, lower(message))

\* messages of the exceptions the caption client raises
ErrorMessages ==
  { <<"D", "i", "s", "a", "b", "l", "e", "d">>,
    <<"N", "o", "t", " ", "A", "v", "a", "i", "l", "a", "b", "l", "e">>,
    <<"n", "o", " ", "t", "r", "a", "n", "s", "c", "r", "i", "p", "t">>,
    <<"P", "R", "I", "V", "A", "T", "E">>,
    <<"U", "n", "a", "v", "a", "i", "l", "a", "b", "l", "e">>,
    <<"N", "o", "t", " ", "F", "o", "u", "n", "d">>,
    <<"n", "o", "t", " ", "a", "v", "a", "i", "l">>,
    <<"t", "i", "m", "e", "d", " ", "o", "u", "t">> }

\* line 211
NoTranscriptFound ==
  <<"n", "o", " ", "t", "r", "a", "n", "s", "c", "r", "i", "p", "t", " ", "f", "o", "u", "n", "d", " ", "v", "i", "a">> \o
  <<" ", "a", "v", "a", "i", "l", "a", "b", "l", "e", " ", "m", "e", "t", "h", "o", "d", "s">>

\* the message of the AttributeError of a missing method
NoAttribute == <<"n", "o", " ", "a", "t", "t", "r", "i", "b", "u", "t", "e">>

\* what a call of the caption client can raise
Exceptions ==
  [type : {"Exception"}, msg : ErrorMessages]
    \cup {[type |-> "AttributeError", msg |-> NoAttribute]}

\* what a call of the caption client can return: a list of snippets with
\* text, a list of snippets whose texts are all empty, a list of objects
\* without a get method, an empty list
ListKinds == {"items", "blank", "malformed", "empty"}

\* line 208: `if transcript_list`
Truthy(l) == l \in {"items", "blank", "malformed"}

\* an entry of the trace: the call, the exception it raised (None when it
\* returned), the message of the exception, the list it returned
Called(c, r, m, l) == [call |-> c, raised |-> r, msg |-> m, list |-> l]

\* the strategies fall through on every exception
Unsupported_any(type) == TRUE

\* lines 169, 197: `except AttributeError`
Unsupported(type) == type = "AttributeError"

\* the handler of the retry loop names RuntimeError only
ExceptException_runtime(type) == type = "RuntimeError"

\* line 213: `except Exception` catches every exception of the try block
ExceptException(type) == TRUE

\* an exception leaves the inner try statements: the handler of line 213
\* takes it, or it leaves the resolver
Propagates(ex) ==
  /\ rpc' = IF ExceptException(ex.type) THEN "except" ELSE "raised"
  /\ exc' = ex.msg
  /\ UNCHANGED transcript

\* lines 209, 223, 341: get_youtube_transcript_improved_v2 returns
V2Returns(t) ==
  /\ rpc' = "fallback"
  /\ transcript' = t
  /\ UNCHANGED exc

\* line 334
resolver_call ==
  /\ rpc = "idle"
  /\ max_retries' \in 0..MaxRetries
  /\ rpc' = "loop"
  /\ UNCHANGED <<attempt, transcript_list, exc, transcript, trace>>
  /\ UNCHANGED notresolver

\* lines 157-163: the loop begins an attempt, after a delay unless it is the
\* first
v2_attempt ==
  /\ rpc = "loop"
  /\ attempt < max_retries
  /\ trace' = IF attempt > 0
                THEN Append(trace, Called("smart_delay", None, <<>>, None))
                ELSE trace
  /\ transcript_list' = None
  /\ rpc' = "direct"
  /\ UNCHANGED <<max_retries, attempt, exc, transcript>>
  /\ UNCHANGED notresolver

\* lines 157, 223: range(max_retries) has run out
v2_exhausted ==
  /\ rpc = "loop"
  /\ attempt >= max_retries
  /\ V2Returns(None)
  /\ UNCHANGED <<max_retries, attempt, transcript_list, trace>>
  /\ UNCHANGED notresolver

\* lines 165-169: TranscriptAPI.get_transcript
v2_direct ==
  /\ rpc = "direct"
  /\ \/ \E l \in ListKinds :
          /\ transcript_list' = l
          /\ trace' = Append(trace, Called("get_transcript", None, <<>>, l))
          /\ rpc' = "join"
          /\ UNCHANGED <<exc, transcript>>
     \/ \E ex \in Exceptions :
          /\ trace' = Append(trace,
                             Called("get_transcript", ex.type, ex.msg, None))
          /\ UNCHANGED transcript_list
          /\ IF Unsupported(ex.type)
               THEN rpc' = "listing" /\ UNCHANGED <<exc, transcript>>
               ELSE Propagates(ex)
  /\ UNCHANGED <<max_retries, attempt>>
  /\ UNCHANGED notresolver

\* lines 172-197: TranscriptAPI.list_transcripts, then the searches by
\* language, for a manual and for a generated transcript, whose exceptions
\* are all passed over; l is None when none of them fetched anything
v2_listing ==
  /\ rpc = "listing"
  /\ \/ \E l \in ListKinds \cup {None} :
          /\ transcript_list' = l
          /\ trace' = Append(trace, Called("list_transcripts", None, <<>>, l))
          /\ rpc' = "join"
          /\ UNCHANGED <<exc, transcript>>
     \/ \E ex \in Exceptions :
          /\ trace' = Append(trace,
                             Called("list_transcripts", ex.type, ex.msg, None))
          /\ UNCHANGED transcript_list
          /\ IF Unsupported(ex.type)
               THEN rpc' = "batch" /\ UNCHANGED <<exc, transcript>>
               ELSE Propagates(ex)
  /\ UNCHANGED <<max_retries, attempt>>
  /\ UNCHANGED notresolver

\* lines 199-206: TranscriptAPI.get_transcripts; a falsy list is not kept
\* and every exception is passed over
v2_batch ==
  /\ rpc = "batch"
  /\ \/ \E l \in ListKinds \cup {None} :
          /\ transcript_list' = IF Truthy(l) THEN l ELSE None
          /\ trace' = Append(trace, Called("get_transcripts", None, <<>>, l))
     \/ \E ex \in Exceptions :
          /\ trace' = Append(trace,
                             Called("get_transcripts", ex.type, ex.msg, None))
          /\ UNCHANGED transcript_list
  /\ rpc' = "join"
  /\ UNCHANGED <<max_retries, attempt, exc, transcript>>
  /\ UNCHANGED notresolver

\* lines 208-211: the texts are joined and returned, or RuntimeError is raised
v2_join ==
  /\ rpc = "join"
  /\ CASE transcript_list = "items" -> V2Returns("text")
       [] transcript_list = "blank" -> V2Returns("")
       [] transcript_list = "malformed" ->
            Propagates([type |-> "AttributeError", msg |-> NoAttribute])
       [] OTHER ->
            Propagates([type |-> "RuntimeError", msg |-> NoTranscriptFound])
  /\ UNCHANGED <<max_retries, attempt, transcript_list, trace>>
  /\ UNCHANGED notresolver

\* lines 213-221: a permanent condition ends the loop
v2_break ==
  /\ rpc = "except"
  /\ IsPermanent(exc)
  /\ trace' = Append(trace, Called("except", "Exception", exc, None))
  /\ V2Returns(None)
  /\ UNCHANGED <<max_retries, attempt, transcript_list>>
  /\ UNCHANGED notresolver

\* lines 213-216, 157: any other exception leads to the next attempt
v2_retry ==
  /\ rpc = "except"
  /\ ~IsPermanent(exc)
  /\ trace' = Append(trace, Called("except", "Exception", exc, None))
  /\ attempt' = attempt + 1
  /\ rpc' = "loop"
  /\ UNCHANGED <<max_retries, transcript_list, exc, transcript>>
  /\ UNCHANGED notresolver

\* line 32
WHISPER_AVAILABLE == FALSE

\* lines 342-344
fallback_return_captions ==
  /\ rpc = "fallback"
  /\ transcript \notin {None, ""}
  /\ rpc' = "returned"
  /\ UNCHANGED <<max_retries, attempt, transcript_list, exc, transcript,
                 trace>>
  /\ UNCHANGED notresolver

\* lines 352-377: the audio is downloaded (os.makedirs of line 235 stands
\* outside every try) and handed to transcribe_with_whisper, which removes
\* the file and returns None
AudioFallback ==
  \E downloaded \in {"file", None, "OSError"} :
    IF downloaded = "OSError"
      THEN /\ rpc' = "raised"
           /\ trace' = Append(trace, Called("download", "OSError", <<>>, None))
           /\ UNCHANGED transcript
      ELSE /\ trace' = trace
                \o <<Called("download", None, <<>>, None)>>
                \o (IF downloaded = "file"
                      THEN <<Called("transcribe", None, <<>>, None)>>
                      ELSE <<>>)
           /\ transcript' = None
           /\ rpc' = "returned"

\* lines 346-377
fallback_audio ==
  /\ rpc = "fallback"
  /\ transcript \in {None, ""}
  /\ IF ~WHISPER_AVAILABLE
       THEN /\ transcript' = None
            /\ rpc' = "returned"
            /\ UNCHANGED trace
       ELSE AudioFallback
  /\ UNCHANGED <<max_retries, attempt, transcript_list, exc>>
  /\ UNCHANGED notresolver

NextResolver ==
  \/ resolver_call
  \/ v2_attempt
  \/ v2_exhausted
  \/ v2_direct
  \/ v2_listing
  \/ v2_batch
  \/ v2_join
  \/ v2_break
  \/ v2_retry
  \/ fallback_return_captions
  \/ fallback_audio

SpecResolver == InitIdle /\ [][NextResolver]_vars

(* ----------------------- audio transcription -------------------------- *)
\* The three resolvers that download the audio of a video and hand it to
\* Whisper: get_youtube_transcript of src/main.py (lines 63-93),
\* generate_transcript_with_whisper of src/module/summarize_video.py (lines
\* 313-322) and, in the bot, a downloader followed by
\* transcribe_with_whisper (lines 361-371, 322-331).  A file on disk is
\* named by its directory and the video; removing a file the process has
\* just written does not fail.

AudioResolvers ==
  {"get_youtube_transcript", "generate_transcript_with_whisper",
   "transcribe_with_whisper"}

\* what Whisper makes of an audio file: a text, an empty text, an exception
WhisperResults == {"text", "", "raises"}

\* the function returns
AudioReturns(t) ==
  /\ apc' = "returned"
  /\ stt' = t
  /\ audio_file' = NoFile

\* one of the resolvers is called
audio_call ==
  /\ apc \in {"idle", "returned"}
  /\ audio_calls < MaxCalls
  /\ audio_calls' = audio_calls + 1
  /\ resolver' \in AudioResolvers
  /\ video_id' \in Ids
  /\ apc' = "called"
  /\ stt' = None
  /\ audio_file' = NoFile
  /\ UNCHANGED disk
  /\ UNCHANGED notaudio

\* src/main.py lines 65-72: the captions are fetched; when that raises and
\* the import of whisper had failed, None is returned
gyt_captions ==
  /\ apc = "called"
  /\ resolver = "get_youtube_transcript"
  /\ \/ AudioReturns("text")
     \/ AudioReturns(None)
     \/ apc' = "download" /\ UNCHANGED <<stt, audio_file>>
  /\ UNCHANGED <<resolver, video_id, disk, audio_calls>>
  /\ UNCHANGED notaudio

\* src/main.py lines 75-82, 91-93: pytube opens the video, the first audio
\* stream is downloaded into temp_audio; any exception is caught by the
\* handler of line 91
gyt_download ==
  /\ apc = "download"
  /\ resolver = "get_youtube_transcript"
  /\ \/ /\ audio_file' = [dir |-> "temp_audio", id |-> video_id]
        /\ disk' = disk \cup {audio_file'}
        /\ apc' = "transcribe"
        /\ UNCHANGED stt
     \/ /\ AudioReturns(None)
        /\ UNCHANGED disk
  /\ UNCHANGED <<resolver, video_id, audio_calls>>
  /\ UNCHANGED notaudio

\* src/main.py lines 85-93: whisper.load_model and model.transcribe; when
\* they return, the file is removed and the text returned; when one of them
\* raises, the handler of line 91 returns None
gyt_transcribe ==
  /\ apc = "transcribe"
  /\ resolver = "get_youtube_transcript"
  /\ \E r \in WhisperResults :
       IF r = "raises"
         THEN /\ AudioReturns(None)
              /\ UNCHANGED disk
         ELSE /\ disk' = disk \ {audio_file}
              /\ AudioReturns(r)
  /\ UNCHANGED <<resolver, video_id, audio_calls>>
  /\ UNCHANGED notaudio

\* leaving the `with TemporaryDirectory()` block removes the directory and
\* what it holds, src/module/summarize_video.py line 316
TemporaryDirectory_exit(files) == { f \in files : f.dir # "tmp_dir" }

\* src/module/summarize_video.py lines 315-318, 277-300: yt-dlp downloads
\* into the temporary directory, or raises
gtw_download ==
  /\ apc = "called"
  /\ resolver = "generate_transcript_with_whisper"
  /\ \/ /\ audio_file' = [dir |-> "tmp_dir", id |-> video_id]
        /\ disk' = disk \cup {audio_file'}
        /\ apc' = "transcribe"
        /\ UNCHANGED stt
     \/ /\ AudioReturns(None)
        /\ disk' = TemporaryDirectory_exit(disk)
  /\ UNCHANGED <<resolver, video_id, audio_calls>>
  /\ UNCHANGED notaudio

\* src/module/summarize_video.py lines 303-322: an empty text is turned into
\* RuntimeError; every exception is caught after the directory is removed
gtw_transcribe ==
  /\ apc = "transcribe"
  /\ resolver = "generate_transcript_with_whisper"
  /\ \E r \in WhisperResults :
       AudioReturns(IF r = "text" THEN r ELSE None)
  /\ disk' = TemporaryDirectory_exit(disk)
  /\ UNCHANGED <<resolver, video_id, audio_calls>>
  /\ UNCHANGED notaudio

\* lines 361-370: one of the bot's downloaders has left a file in
\* temp_audio, or both returned None
bot_download ==
  /\ apc = "called"
  /\ resolver = "transcribe_with_whisper"
  /\ \/ /\ audio_file' = [dir |-> "temp_audio", id |-> video_id]
        /\ disk' = disk \cup {audio_file'}
        /\ apc' = "transcribe"
        /\ UNCHANGED stt
     \/ /\ AudioReturns(None)
        /\ UNCHANGED disk
  /\ UNCHANGED <<resolver, video_id, audio_calls>>
  /\ UNCHANGED notaudio

\* lines 322-331: the file is removed and None returned
transcribe_with_whisper ==
  /\ apc = "transcribe"
  /\ resolver = "transcribe_with_whisper"
  /\ disk' = disk \ {audio_file}
  /\ AudioReturns(None)
  /\ UNCHANGED <<resolver, video_id, audio_calls>>
  /\ UNCHANGED notaudio

NextAudio ==
  \/ audio_call
  \/ gyt_captions
  \/ gyt_download
  \/ gyt_transcribe
  \/ gtw_download
  \/ gtw_transcribe
  \/ bot_download
  \/ transcribe_with_whisper

SpecAudio == InitIdle /\ [][NextAudio]_vars

(* -------------------- arguments and date filter ----------------------- *)
\* main's check of --year, --month, --date (lines 667-678) and what the two
\* checkers make of them: the query window of check_youtube_channel (lines
\* 531-568) and the per-entry test of check_rss_feed (lines 630-639).  An
\* argument is <<>> when the flag is not supplied (None) and <<n>> when it
\* is; a time is a UTC date with the minute of the day.

YearValues == {<<>>, <<0>>, <<2024>>, <<2025>>}
MonthValues == {<<>>, <<0>>, <<2>>, <<6>>, <<12>>, <<13>>}
DateValues == {<<>>, <<0>>, <<1>>, <<29>>, <<30>>, <<31>>}

\* the truth value of an argument: None and 0 are false
IsSet(a) == a # <<>> /\ a[1] # 0

\* the calendar of datetime
IsLeap(y) == (y % 4 = 0 /\ y % 100 # 0) \/ y % 400 = 0

DaysInMonth(y, m) ==
  IF m = 2 THEN (IF IsLeap(y) THEN 29 ELSE 28)
  ELSE IF m \in {4, 6, 9, 11} THEN 30
  ELSE 31

\* datetime(y, m, d, ...) raises ValueError on anything else
ValidDate(y, m, d) ==
  /\ y \in 1..9999
  /\ m \in 1..12
  /\ d \in 1..DaysInMonth(y, m)

\* the years of the publish times, and the first of them
EpochYear == 2024
Years == EpochYear..2026

RECURSIVE DaysBeforeYear(_)
DaysBeforeYear(y) ==
  IF y <= EpochYear THEN 0
  ELSE DaysBeforeYear(y - 1) + (IF IsLeap(y - 1) THEN 366 ELSE 365)

RECURSIVE DaysBeforeMonth(_, _)
DaysBeforeMonth(y, m) ==
  IF m <= 1 THEN 0
  ELSE DaysBeforeMonth(y, m - 1) + DaysInMonth(y, m - 1)

\* date.toordinal, counted from the first day of EpochYear
toordinal(t) == DaysBeforeYear(t.year) + DaysBeforeMonth(t.year, t.month) + t.day

Dates ==
  { t \in [year : EpochYear..2027, month : 1..12, day : 1..31] :
      t.day <= DaysInMonth(t.year, t.month) }

\* date.fromordinal
fromordinal(n) == CHOOSE t \in Dates : toordinal(t) = n

\* datetime(y, m, d, 0, 0, 0, tzinfo=timezone.utc)
datetime(y, m, d) == [year |-> y, month |-> m, day |-> d, minute |-> 0]

\* t + timedelta(days=n)
PlusDays(t, n) ==
  LET d == fromordinal(toordinal(t) + n)
  IN  [year |-> d.year, month |-> d.month, day |-> d.day, minute |-> t.minute]

\* the publish times of the entries: the first and the last minute of the
\* days at either end of every month
Times ==
  { t \in [year : Years, month : 1..12, day : {1, 2, 28, 29, 30, 31},
           minute : {0, 1439}] :
      t.day <= DaysInMonth(t.year, t.month) }

\* lines 675-678: parser.error is called
UsageError(a) ==
  \/ IsSet(a.date) /\ ~(IsSet(a.year) /\ IsSet(a.month))
  \/ IsSet(a.year) /\ ~IsSet(a.month)
  \/ ~IsSet(a.year) /\ IsSet(a.month)

\* lines 531-564: datetime raises ValueError for a month or a day that does
\* not exist
WindowRaises(a) ==
  /\ IsSet(a.year) /\ IsSet(a.month)
  /\ ~ValidDate(a.year[1], a.month[1],
                IF IsSet(a.date) THEN a.date[1] ELSE 1)

\* lines 531-564: start_time and end_time
StartTime(a) ==
  datetime(a.year[1], a.month[1], IF IsSet(a.date) THEN a.date[1] ELSE 1)

EndTime(a) ==
  IF IsSet(a.date) THEN PlusDays(StartTime(a), 1)
  ELSE IF a.month[1] = 12 THEN datetime(a.year[1] + 1, 1, 1)
  ELSE datetime(a.year[1], a.month[1] + 1, 1)

\* the day of the entry is not compared
rss_keeps_month_only(a, t) ==
  IF IsSet(a.year) /\ IsSet(a.month) /\ t # NoTime
    THEN t.year = a.year[1] /\ t.month = a.month[1]
    ELSE ~(IsSet(a.year) /\ IsSet(a.month))

\* lines 630-639: the entry is not passed over by a `continue`
rss_keeps(a, t) ==
  IF IsSet(a.year) /\ IsSet(a.month) /\ t # NoTime
    THEN IF ~(t.year = a.year[1] /\ t.month = a.month[1]) THEN FALSE
         ELSE IF IsSet(a.date) /\ ~(t.day = a.date[1]) THEN FALSE
         ELSE TRUE
    ELSE ~(IsSet(a.year) /\ IsSet(a.month))

\* lines 667-673: parse_args
main_parse_args ==
  /\ cpc = "idle"
  /\ args' \in [year : YearValues, month : MonthValues, date : DateValues]
  /\ cpc' = "parsed"
  /\ UNCHANGED <<published_after, published_before, entry_time, kept>>
  /\ UNCHANGED notcli

\* lines 675-678: parser.error ends the process with status 2
main_usage_error ==
  /\ cpc = "parsed"
  /\ UsageError(args)
  /\ cpc' = "usage_error"
  /\ UNCHANGED <<args, published_after, published_before, entry_time, kept>>
  /\ UNCHANGED notcli

\* line 680: main goes on
main_args_accepted ==
  /\ cpc = "parsed"
  /\ ~UsageError(args)
  /\ cpc' = "accepted"
  /\ UNCHANGED <<args, published_after, published_before, entry_time, kept>>
  /\ UNCHANGED notcli

\* lines 528-577: the window of the search request; a ValueError ends the
\* checker before the request is made
youtube_window ==
  /\ cpc = "accepted"
  /\ IF WindowRaises(args)
       THEN /\ cpc' = "youtube_error"
            /\ UNCHANGED <<published_after, published_before>>
       ELSE /\ cpc' = "youtube_query"
            /\ IF IsSet(args.year) /\ IsSet(args.month)
                 THEN /\ published_after' = StartTime(args)
                      /\ published_before' = EndTime(args)
                 ELSE UNCHANGED <<published_after, published_before>>
  /\ UNCHANGED <<args, entry_time, kept>>
  /\ UNCHANGED notcli

\* lines 625-639: an entry of a feed meets the filter
rss_entry ==
  /\ cpc \in {"youtube_query", "youtube_error"}
  /\ entry_time' \in Times \cup {NoTime}
  /\ kept' = rss_keeps(args, entry_time')
  /\ cpc' = "rss_checked"
  /\ UNCHANGED <<args, published_after, published_before>>
  /\ UNCHANGED notcli

NextArgs ==
  \/ main_parse_args
  \/ main_usage_error
  \/ main_args_accepted
  \/ youtube_window
  \/ rss_entry

SpecArgs == InitIdle /\ [][NextArgs]_vars

(* --------------------------- get_article_text -------------------------- *)

\* the characters str.strip removes from both ends
Whitespace == {" ", "\n", "\t"}

\* the pages a GET answers with: what each selector finds in them, nothing
\* or an element with the get_text() of the <p> elements inside it in
\* document order. One element has no <p>, one has only blank ones, one has
\* text around blank ones
Pages ==
  [{content_selectors[i] : i \in DOMAIN content_selectors} ->
     {NoElement} \cup
     { [matched |-> TRUE, paragraphs |-> ps] :
         ps \in { <<>>,
                  << <<" ">>, <<>> >>,
                  << <<" ", "a", "\n">>, <<"\t">>, <<"b", " ", "c">> >> } }]

\* the literal of line 415: the body was not found, see the original page
NoArticleBody == <<"no article body">>

\* the literal of line 413: no valid article content
NoValidContent == <<"no valid content">>

RECURSIVE lstrip(_)
lstrip(s) ==
  IF s # <<>> /\ Head(s) \in Whitespace THEN lstrip(Tail(s)) ELSE s

RECURSIVE rstrip(_)
rstrip(s) ==
  IF s # <<>> /\ s[Len(s)] \in Whitespace
    THEN rstrip(SubSeq(s, 1, Len(s) - 1))
    ELSE s

\* str.strip, line 410
strip(s) == rstrip(lstrip(s))

\* str.join, line 409
RECURSIVE join(_, _)
join(sep, texts) ==
  IF texts = <<>> THEN <<>>
  ELSE IF Len(texts) = 1 THEN texts[1]
  ELSE texts[1] \o sep \o join(sep, Tail(texts))

\* the loop without its break: the last selector decides
article_body_no_break(page, i) ==
  page[content_selectors[Len(content_selectors)]]

\* lines 401-405: article_body after the loop has looked at the selectors
\* from the i-th on
RECURSIVE article_body(_, _)
article_body(page, i) ==
  IF i > Len(content_selectors) THEN NoElement
  ELSE IF page[content_selectors[i]].matched THEN page[content_selectors[i]]
  ELSE article_body(page, i + 1)

\* lines 401-415: what get_article_text returns for a parsed page
extract_text(page) ==
  LET body == article_body(page, 1) IN
  IF body.matched
    THEN LET texts == [i \in 1..Len(body.paragraphs) |->
                         strip(body.paragraphs[i])]
             text == join(<<"\n">>, SelectSeq(texts, LAMBDA t : t # <<>>))
         IN IF text # <<>> THEN text ELSE NoValidContent
    ELSE NoArticleBody

\* one more round for the loop condition
ArticleAttemptInRange_inclusive(a, n) == a <= n

\* line 384: for attempt in range(max_retries)
ArticleAttemptInRange(a, n) == a < n

\* lines 386-388: the delay before every attempt but the first
ArticleDelay(a) == IF a > 0 THEN <<"smart_delay">> ELSE <<>>

\* line 380: get_article_text(url, max_retries) is called
article_call ==
  /\ gpc = "idle"
  /\ \E n \in 0..MaxRetries : article_retries' = n
  /\ gpc' = "loop"
  /\ UNCHANGED <<article_attempt, soup, article_text, gets>>
  /\ UNCHANGED notarticle

\* lines 390-393, 417-418: the GET, raise_for_status or the parser raises;
\* the exception is printed and the loop goes on
article_get_raises ==
  /\ gpc = "loop"
  /\ ArticleAttemptInRange(article_attempt, article_retries)
  /\ gets' = gets \o ArticleDelay(article_attempt) \o <<"raised">>
  /\ article_attempt' = article_attempt + 1
  /\ UNCHANGED <<gpc, article_retries, soup, article_text>>
  /\ UNCHANGED notarticle

\* lines 390-415: the GET answers with a page, the text is taken from it
\* and returned
article_get_page ==
  /\ gpc = "loop"
  /\ ArticleAttemptInRange(article_attempt, article_retries)
  /\ gets' = gets \o ArticleDelay(article_attempt) \o <<"page">>
  /\ \E page \in Pages :
       /\ soup' = page
       /\ article_text' = extract_text(page)
  /\ gpc' = "returned"
  /\ UNCHANGED <<article_retries, article_attempt>>
  /\ UNCHANGED notarticle

\* line 420: the loop has ended, None is returned
article_exhausted ==
  /\ gpc = "loop"
  /\ ~ArticleAttemptInRange(article_attempt, article_retries)
  /\ article_text' = NoText
  /\ gpc' = "returned"
  /\ UNCHANGED <<article_retries, article_attempt, soup, gets>>
  /\ UNCHANGED notarticle

NextArticle ==
  \/ article_call
  \/ article_get_raises
  \/ article_get_page
  \/ article_exhausted

SpecArticle == InitIdle /\ [][NextArticle]_vars

(* ------------ get_summary_from_llm, broadcast_line_message ------------- *)

\* the four characters that open every placeholder of config.json, each
\* named by its code point (lines 426 and 463)
PlaceholderMarker == <<"U+8ACB", "U+5728", "U+9019", "U+88E1">>

\* values of config.get('LLM_API_KEY') and of
\* config.get('LINE_CHANNEL_ACCESS_TOKEN'); NoText when the key is absent
KeyValues ==
  { NoText,
    <<>>,
    PlaceholderMarker \o <<"k", "e", "y">>,
    <<"(">> \o PlaceholderMarker \o <<")">>,
    <<"U+8ACB", "k">>,
    <<"k", "e", "y">> }

\* the test without the marker
Configured_nonempty(value) == ~(value = NoText \/ value = <<>>)

\* lines 426 and 463: `not value or marker in value` is false
Configured(value) ==
  ~(value = NoText \/ value = <<>> \/ Contains(PlaceholderMarker, value))

\* lines 423-454: get_summary_from_llm(content, api_key); the client is
\* used only with a key and once its import has succeeded
output_summarize ==
  /\ opc = "idle"
  /\ \E value \in KeyValues, llm \in LlmBehaviours :
       /\ api_key' = value
       /\ llm_summary' = get_summary_from_llm(Configured(value), llm)
       /\ net' = IF Configured(value) /\ llm # "import_error"
                   THEN Append(net, [to |-> "gemini", outcome |-> llm])
                   ELSE net
  /\ opc' = "summarized"
  /\ UNCHANGED access_token
  /\ UNCHANGED notoutput

\* lines 462-482: broadcast_line_message(access_token, message)
output_broadcast ==
  /\ opc = "summarized"
  /\ \E value \in KeyValues :
       /\ access_token' = value
       /\ IF Configured(value)
            THEN \E r \in PostResults :
                   net' = Append(net, [to |-> "line", outcome |-> r])
            ELSE UNCHANGED net
  /\ opc' = "broadcast"
  /\ UNCHANGED <<api_key, llm_summary>>
  /\ UNCHANGED notoutput

NextOutput ==
  \/ output_summarize
  \/ output_broadcast

SpecOutput == InitIdle /\ [][NextOutput]_vars

(* ---------- get_youtube_transcript_improved_v2: the listing ----------- *)

\* line 155
preferred_langs == <<"zh-TW", "zh-Hant", "zh-CN", "zh", "en">>

\* what becomes of a search followed by t.fetch(): the search raises, the
\* fetch raises, or the fetch returns a list of some kind
LookupOutcomes == {"not_found", "fetch_raises"} \cup ListKinds

\* an empty list is taken for a failure as well
LookupFails_or_empty(o) == o \in {"not_found", "fetch_raises", "empty"}

\* lines 179-183, 187-196: an exception left transcript_list unassigned
LookupFails(o) == o \in {"not_found", "fetch_raises"}

\* line 174: list_transcripts has returned the listing
match_call ==
  /\ mpc = "idle"
  /\ mpc' = "languages"
  /\ lang_i' = 0
  /\ UNCHANGED <<found, lookups>>
  /\ UNCHANGED notmatch

\* lines 177-185: the next language of preferred_langs is searched alone;
\* the loop ends with the first list fetched, and after the last language
\* a transcript_list that is still None sends the search on
match_language ==
  /\ mpc = "languages"
  /\ lang_i < Len(preferred_langs)
  /\ \E o \in LookupOutcomes :
       /\ lookups' = Append(lookups,
                            [call |-> "find_transcript",
                             languages |-> <<preferred_langs[lang_i + 1]>>,
                             outcome |-> o])
       /\ IF LookupFails(o)
            THEN /\ lang_i' = lang_i + 1
                 /\ mpc' = IF lang_i + 1 = Len(preferred_langs)
                             THEN "manual" ELSE "languages"
                 /\ UNCHANGED found
            ELSE /\ found' = o
                 /\ mpc' = "done"
                 /\ UNCHANGED lang_i
  /\ UNCHANGED notmatch

\* lines 186-190: a manually created transcript in any preferred language
match_manual ==
  /\ mpc = "manual"
  /\ \E o \in LookupOutcomes :
       /\ lookups' = Append(lookups,
                            [call |-> "find_manually_created_transcript",
                             languages |-> preferred_langs,
                             outcome |-> o])
       /\ IF LookupFails(o)
            THEN mpc' = "generated" /\ UNCHANGED found
            ELSE mpc' = "done" /\ found' = o
  /\ UNCHANGED lang_i
  /\ UNCHANGED notmatch

\* lines 191-196: a generated transcript in any preferred language
match_generated ==
  /\ mpc = "generated"
  /\ \E o \in LookupOutcomes :
       /\ lookups' = Append(lookups,
                            [call |-> "find_generated_transcript",
                             languages |-> preferred_langs,
                             outcome |-> o])
       /\ found' = IF LookupFails(o) THEN found ELSE o
  /\ mpc' = "done"
  /\ UNCHANGED lang_i
  /\ UNCHANGED notmatch

NextMatch ==
  \/ match_call
  \/ match_language
  \/ match_manual
  \/ match_generated

SpecMatch == InitIdle /\ [][NextMatch]_vars

(* --------------- summarize_video._call_transcript_method -------------- *)

\* the words line 78 looks for in str(exc)
PositionalArgument ==
  <<"p", "o", "s", "i", "t", "i", "o", "n", "a", "l", " ", "a", "r", "g",
    "u", "m", "e", "n", "t">>

\* str(exc) of the TypeError of a method called through its class, without
\* the instance it needs
MissingArgument ==
  <<"m", "i", "s", "s", "i", "n", "g", " ", "1", " ", "r", "e", "q", "u",
    "i", "r", "e", "d", " ", "p", "o", "s", "i", "t", "i", "o", "n", "a",
    "l", " ", "a", "r", "g", "u", "m", "e", "n", "t">>

\* str(exc) of a TypeError of the body that names no argument
\* (tests/test_call_transcript_method.py, line 37)
CustomFailure ==
  <<"c", "u", "s", "t", "o", "m", " ", "f", "a", "i", "l", "u", "r", "e">>

\* str(exc) of a TypeError of a call the body makes with too many arguments
TakesArguments ==
  <<"t", "a", "k", "e", "s", " ", "1", " ", "p", "o", "s", "i", "t", "i",
    "o", "n", "a", "l", " ", "a", "r", "g", "u", "m", "e", "n", "t", " ",
    "b", "u", "t", " ", "2", " ", "w", "e", "r", "e", " ", "g", "i", "v",
    "e", "n">>

\* the exceptions of youtube_transcript_api which get_youtube_content names
CaptionErrors == {"TranscriptsDisabled", "VideoUnavailable", "NoTranscriptFound"}

\* what the body of a method of the transcript API does when it runs
Bodies ==
  { Returned("value"), Returned(None),
    Raised("AssertionError", <<>>),
    Raised("TypeError", CustomFailure),
    Raised("TypeError", TakesArguments),
    Raised("Exception", <<>>) }
  \cup { Raised(e, <<>>) : e \in CaptionErrors }

\* owner and what getattr(owner, method_name) gives: nothing, a value that
\* cannot be called, a callable that takes the arguments as they are, or,
\* for a class, a function that needs an instance before them
Owners ==
  { [is_class |-> c, attr |-> a] :
      c \in BOOLEAN, a \in {"missing", "not_callable", "callable"} }
  \cup { [is_class |-> TRUE, attr |-> "needs_self"] }

\* the owner is never instantiated
NeedsInstance_never(message, is_class) == FALSE

\* the message of the TypeError is not looked at
NeedsInstance_for_any_message(message, is_class) == is_class

\* line 78: the TypeError is answered by a call on an instance
NeedsInstance(message, is_class) ==
  Contains(PositionalArgument, message) /\ is_class

\* what came of a call of _call_transcript_method: what it returns or
\* raises, how often owner was instantiated, how often the body ran
Done(o, n, k) == [outcome |-> o, instances |-> n, runs |-> k]

\* lines 62-90. direct: what the body does when it runs for the call on
\* owner; bound: what it does when it runs for the call on the instance;
\* instantiation: what owner() does
call_transcript_method(owner, direct, bound, instantiation) ==
  LET first == IF owner.attr = "needs_self"
                 THEN Raised("TypeError", MissingArgument)
                 ELSE direct
      ran == IF owner.attr = "needs_self" THEN 0 ELSE 1
  IN IF owner.attr \in {"missing", "not_callable"}
       THEN Done(Returned(None), 0, 0)
     ELSE IF first.kind = "returns"
       THEN Done(first, 0, ran)
     ELSE IF first.type = "AssertionError"
       THEN Done(Returned(None), 0, ran)
     ELSE IF first.type = "TypeError"
             /\ NeedsInstance(first.msg, owner.is_class)
       THEN IF instantiation = "raises"
              THEN Done(first, 1, ran)
            ELSE IF bound.kind = "raises" /\ bound.type = "AssertionError"
              THEN Done(Returned(None), 1, ran + 1)
            ELSE Done(bound, 1, ran + 1)
     ELSE Done(first, 0, ran)

\* _call_transcript_method(owner, method_name, *args) is called
ctm_call ==
  /\ ~ctm.called
  /\ \E owner \in Owners, direct \in Bodies, bound \in Bodies,
        instantiation \in {"ok", "raises"} :
       LET d == call_transcript_method(owner, direct, bound, instantiation)
       IN ctm' = [called |-> TRUE, owner |-> owner, direct |-> direct,
                  bound |-> bound, instantiation |-> instantiation,
                  outcome |-> d.outcome, instances |-> d.instances,
                  runs |-> d.runs]
  /\ UNCHANGED notcall

NextCall ==
  \/ ctm_call

SpecCall == InitIdle /\ [][NextCall]_vars

(* ----------------- summarize_video.get_youtube_content ---------------- *)

\* a track of the listing: its language_code and is_translatable
Tracks == [language_code : {"zh-TW", "en", "ja"}, is_translatable : BOOLEAN]

\* the listings list_transcripts or list returns
Listings == UNION { [1..n -> Tracks] : n \in 0..MaxTracks }

\* lines 52-59: _fetch_video_title returns the title, or None when pytube
\* raises
Titles == {"title", None}

\* what YouTubeTranscriptApi.<method>(video_id, ...) comes to when it is
\* called through _call_transcript_method
CallOutcomes ==
  { call_transcript_method(owner, direct, bound, instantiation).outcome :
      owner \in {o \in Owners : o.is_class}, direct \in Bodies,
      bound \in Bodies, instantiation \in {"ok", "raises"} }

\* line 175: find_transcript returns a track when the listing has one in a
\* language asked for and raises NoTranscriptFound when it has none; the
\* handlers of lines 202-210 provide for its other exceptions
find_transcript(listing, languages) ==
  { IF \E i \in 1..Len(listing), j \in 1..Len(languages) :
         listing[i].language_code = languages[j]
      THEN Returned("value")
      ELSE Raised("NoTranscriptFound", <<>>) }
  \cup { Raised(e, <<>>) :
           e \in {"TranscriptsDisabled", "VideoUnavailable", "Exception"} }

\* the lists a fetch returns: dicts with text, dicts whose text is blank,
\* a list with an entry that is no dict, no entry
EntryKinds == {"entries", "blank", "objects", "empty"}

\* the list of that kind fetched for the track at place k (0: for the video
\* as a whole); an entry is a dict or not and has a text
fetched(kind, k) ==
  CASE kind = "entries" ->
         <<[is_dict |-> TRUE, text |-> <<" ", ToString(k)>>],
           [is_dict |-> TRUE, text |-> <<"b", "\n">>]>>
    [] kind = "blank" ->
         <<[is_dict |-> TRUE, text |-> <<" ">>],
           [is_dict |-> TRUE, text |-> <<>>]>>
    [] kind = "objects" ->
         <<[is_dict |-> FALSE, text |-> <<>>],
           [is_dict |-> TRUE, text |-> <<"c">>]>>
    [] OTHER -> <<>>

\* any text is taken for a transcript
HasTranscriptText_any(text) == TRUE

\* lines 138, 221: `if transcript_text:`
HasTranscriptText(text) == text # <<>>

\* lines 135-137 and 220: " ".join(...).strip() of the entries' texts
transcript_text(texts) ==
  strip(join(<<" ">>, [i \in 1..Len(texts) |-> texts[i].text]))

\* line 136: the entries that are dicts
dicts(result) == SelectSeq(result, LAMBDA e : e.is_dict)

\* line 175: the place of the track find_transcript returns, the first in
\* the first of the languages that the listing has
found_track(listing, languages) ==
  LET has(j) == \E i \in 1..Len(listing) :
                  listing[i].language_code = languages[j]
      first == CHOOSE j \in 1..Len(languages) :
                 has(j) /\ \A h \in 1..(j - 1) : ~has(h)
  IN CHOOSE i \in 1..Len(listing) :
       /\ listing[i].language_code = languages[first]
       /\ \A h \in 1..(i - 1) : listing[h].language_code # languages[first]

\* the messages of lines 122/151/203, 124/153/205, 127/156/169/200,
\* 130/159/208/216 and 222
Message ==
  [disabled |-> <<"captions disabled">>,
   unavailable |-> <<"video unavailable">>,
   no_captions |-> <<"no captions">>,
   unrecoverable |-> <<"unrecoverable error">>,
   empty |-> <<"captions empty">>]

\* lines 194-198: the languages joined by ", " inside the message
OnlyLanguages(languages) ==
  <<"only these languages: ">>
    \o join(<<", ">>, [i \in 1..Len(languages) |-> <<languages[i]>>])
    \o <<".">>

\* a call get_youtube_content made, and what came of it
ApiCall(c, o) == [call |-> c, outcome |-> o]

\* lines 52-59: the call of _fetch_video_title
TitleCall(t) == ApiCall("_fetch_video_title", Returned(t))

Triple(t, text, message) ==
  [title |-> t, transcript |-> text, message |-> message]

\* every exception is reported as unrecoverable
caption_error_unrecoverable(type, t) == Triple(None, NoText, Message.unrecoverable)

\* lines 149-161 and 120-132: the triple returned for an exception of the
\* listing or of the probe; t is the title fetched for it
caption_error(type, t) ==
  CASE type = "TranscriptsDisabled" -> Triple(t, NoText, Message.disabled)
    [] type = "VideoUnavailable" -> Triple(None, NoText, Message.unavailable)
    [] type = "NoTranscriptFound" -> Triple(t, NoText, Message.no_captions)
    [] OTHER -> Triple(None, NoText, Message.unrecoverable)

\* lines 150, 155, 121, 126: the handlers that fetch the title
FetchesTitle(type) == type \in {"TranscriptsDisabled", "NoTranscriptFound"}

\* lines 202-210: the triple returned for an exception of find_transcript;
\* t is the title fetched at line 171
lookup_error(type, t) ==
  CASE type = "TranscriptsDisabled" -> Triple(t, NoText, Message.disabled)
    [] type = "VideoUnavailable" -> Triple(None, NoText, Message.unavailable)
    [] OTHER -> Triple(t, NoText, Message.unrecoverable)

ContentReturns(triple) ==
  /\ yresult' = triple
  /\ ypc' = "returned"

\* a language is listed as often as it occurs
AddLanguage_again(available, code) == Append(available, code)

\* lines 182-183
AddLanguage(available, code) ==
  IF \E i \in 1..Len(available) : available[i] = code
    THEN available
    ELSE Append(available, code)

\* line 144: get_youtube_content(video_id) is called
content_call ==
  /\ ypc = "idle"
  /\ ypc' = "list"
  /\ UNCHANGED <<title, transcripts, ti, available_languages, transcript_obj,
                 yresult, ylog>>
  /\ UNCHANGED notcontent

\* lines 147-163, 93-104: list_transcripts, and list if that gave None
content_list ==
  /\ ypc = "list"
  /\ \E o1 \in CallOutcomes, o2 \in CallOutcomes, l \in Listings,
        t \in Titles :
       LET again == o1 = Returned(None)
           o == IF again THEN o2 ELSE o1
           calls == <<ApiCall("list_transcripts", o1)>>
                      \o (IF again THEN <<ApiCall("list", o2)>> ELSE <<>>)
       IN IF o.kind = "raises"
            THEN /\ ylog' = ylog \o calls
                              \o (IF FetchesTitle(o.type)
                                    THEN <<TitleCall(t)>> ELSE <<>>)
                 /\ ContentReturns(caption_error(o.type, t))
                 /\ UNCHANGED transcripts
            ELSE /\ ylog' = ylog \o calls
                 /\ IF o.value = None
                      THEN ypc' = "get_transcript" /\ UNCHANGED transcripts
                      ELSE ypc' = "lookup" /\ transcripts' = l
                 /\ UNCHANGED yresult
  /\ UNCHANGED <<title, ti, available_languages, transcript_obj>>
  /\ UNCHANGED notcontent

\* lines 164-169, 107-142: _probe_transcript_errors calls get_transcript,
\* then fetch; ypc names the method
content_probe ==
  /\ ypc \in {"get_transcript", "fetch"}
  /\ \E o \in CallOutcomes, r \in EntryKinds, t \in Titles :
       IF o.kind = "raises"
         THEN /\ ylog' = ylog \o <<ApiCall(ypc, o)>>
                           \o (IF FetchesTitle(o.type)
                                 THEN <<TitleCall(t)>> ELSE <<>>)
              /\ ContentReturns(caption_error(o.type, t))
         ELSE LET result == IF o.value = None THEN None ELSE r
                  text == IF o.value = None THEN <<>>
                          ELSE transcript_text(dicts(fetched(r, 0)))
              IN
              IF o.value # None /\ HasTranscriptText(text)
                THEN /\ ylog' = ylog \o <<ApiCall(ypc, Returned(result)),
                                          TitleCall(t)>>
                     /\ ContentReturns(Triple(t, text, NoText))
              ELSE IF ypc = "get_transcript"
                THEN /\ ylog' = Append(ylog, ApiCall(ypc, Returned(result)))
                     /\ ypc' = "fetch"
                     /\ UNCHANGED yresult
              ELSE /\ ylog' = ylog \o <<ApiCall(ypc, Returned(result)),
                                        TitleCall(t)>>
                   /\ ContentReturns(Triple(t, NoText, Message.no_captions))
  /\ UNCHANGED <<title, transcripts, ti, available_languages, transcript_obj>>
  /\ UNCHANGED notcontent

\* line 175: the languages looked up
wanted_languages == <<"zh-Hant", "zh-TW", "zh-CN">>

\* lines 171-176, 202-210: the title is fetched, then a track in one of the
\* three Chinese languages is looked up
content_lookup ==
  /\ ypc = "lookup"
  /\ \E t \in Titles, o \in find_transcript(transcripts, wanted_languages) :
       /\ title' = t
       /\ ylog' = ylog \o <<TitleCall(t), ApiCall("find_transcript", o)>>
       /\ IF o.kind = "returns"
            THEN /\ ypc' = "fetch_track"
                 /\ transcript_obj' = found_track(transcripts, wanted_languages)
                 /\ UNCHANGED yresult
          ELSE IF o.type = "NoTranscriptFound"
            THEN /\ ypc' = "enumerate"
                 /\ UNCHANGED <<transcript_obj, yresult>>
          ELSE /\ ContentReturns(lookup_error(o.type, t))
               /\ UNCHANGED transcript_obj
  /\ UNCHANGED <<transcripts, ti, available_languages>>
  /\ UNCHANGED notcontent

\* every track is asked for its translation, translatable or not
Translates_any(obj, track) == obj = 0

\* line 185: the track is asked for its translation
Translates(obj, track) == obj = 0 /\ track.is_translatable

\* lines 178-190: the next track of the listing; its language is noted
\* and, if it can be translated, its translation is asked for. The loop
\* runs inside the handler of line 176, where only the NoTranscriptFound
\* of translate is caught
content_next_track ==
  /\ ypc = "enumerate"
  /\ ti < Len(transcripts)
  /\ LET track == transcripts[ti + 1] IN
       /\ available_languages' =
            AddLanguage(available_languages, track.language_code)
       /\ IF Translates(transcript_obj, track)
            THEN \E o \in { Returned("value"), Raised("Exception", <<>>) }
                             \cup { Raised(e, <<>>) : e \in CaptionErrors } :
                   /\ ylog' = Append(ylog, ApiCall("translate", o))
                   /\ ypc' = IF o.kind = "returns" THEN "fetch_track"
                             ELSE IF o.type = "NoTranscriptFound"
                               THEN "enumerate"
                             ELSE "raised"
                   /\ transcript_obj' =
                        IF o.kind = "returns" THEN ti + 1 ELSE transcript_obj
            ELSE UNCHANGED <<ypc, ylog, transcript_obj>>
  /\ ti' = ti + 1
  /\ UNCHANGED <<title, transcripts, yresult>>
  /\ UNCHANGED notcontent

\* lines 192-201: the loop has taken every track; without a track that was
\* translated the languages met are the message
content_no_track ==
  /\ ypc = "enumerate"
  /\ ti = Len(transcripts)
  /\ IF transcript_obj = 0
       THEN ContentReturns(Triple(title, NoText,
                                  IF available_languages # <<>>
                                    THEN OnlyLanguages(available_languages)
                                    ELSE Message.no_captions))
       ELSE ypc' = "fetch_track" /\ UNCHANGED yresult
  /\ UNCHANGED <<title, transcripts, ti, available_languages, transcript_obj,
                 ylog>>
  /\ UNCHANGED notcontent

\* lines 212-224: the track is fetched and the texts of its entries are
\* joined; line 220 calls entry.get outside every try
content_fetch_track ==
  /\ ypc = "fetch_track"
  /\ \E o \in { Returned(r) : r \in EntryKinds }
              \cup { Raised(e, <<>>) : e \in CaptionErrors \cup {"Exception"} } :
       /\ ylog' = Append(ylog, ApiCall("transcript_obj.fetch", o))
       /\ IF o.kind = "raises"
            THEN ContentReturns(Triple(title, NoText, Message.unrecoverable))
          ELSE LET transcript_entries == fetched(o.value, transcript_obj) IN
               IF dicts(transcript_entries) # transcript_entries
                 THEN ypc' = "raised" /\ UNCHANGED yresult
               ELSE IF HasTranscriptText(transcript_text(transcript_entries))
                 THEN ContentReturns(Triple(title,
                                            transcript_text(transcript_entries),
                                            NoText))
               ELSE ContentReturns(Triple(title, NoText, Message.empty))
  /\ UNCHANGED <<title, transcripts, ti, available_languages, transcript_obj>>
  /\ UNCHANGED notcontent

NextContent ==
  \/ content_call
  \/ content_list
  \/ content_probe
  \/ content_lookup
  \/ content_next_track
  \/ content_no_track
  \/ content_fetch_track

SpecContent == InitIdle /\ [][NextContent]_vars

(* ---------------------- src/main.py: the orchestrator ----------------- *)
\* main (lines 245-274), the two checkers (lines 175-243), which differ in
\* where the date filter is applied, and process_item (lines 166-173).
\* This program keeps one ledger, processed_ids.txt.

\* lines 54-57: the id is appended to the ledger
save_processed_id(item_id, file) == file \cup {item_id}

\* lines 245-263: the arguments are parsed, config.json and the ledger are
\* loaded; a wrong pair of arguments or no config ends the run
main_py_start ==
  /\ m_pc = "idle"
  /\ m_runs < MaxRuns
  /\ \/ /\ m_pc' = "sources"
        /\ m_processed_ids' = m_processed_txt
        /\ m_si' = 0
        /\ UNCHANGED m_runs
     \/ /\ m_runs' = m_runs + 1
        /\ UNCHANGED <<m_pc, m_processed_ids, m_si>>
  /\ UNCHANGED <<m_processed_txt, m_taken, m_entry, m_unresolved, m_delivered>>
  /\ UNCHANGED notmainpy

\* lines 265-272: the next source; one that is not enabled or of no known
\* type gives no item, a source without 'type' raises KeyError
main_py_source ==
  /\ m_pc = "sources"
  /\ m_si < MaxSources
  /\ m_si' = m_si + 1
  /\ \/ /\ m_pc' = "check"
        /\ m_taken' = 0
        /\ UNCHANGED m_runs
     \/ UNCHANGED <<m_pc, m_taken, m_runs>>
     \/ /\ m_pc' = "idle"
        /\ m_runs' = m_runs + 1
        /\ UNCHANGED m_taken
  /\ UNCHANGED <<m_processed_txt, m_processed_ids, m_entry, m_unresolved,
                 m_delivered>>
  /\ UNCHANGED notmainpy

\* lines 265, 278: config has no further source
main_py_return ==
  /\ m_pc = "sources"
  /\ m_pc' = "idle"
  /\ m_runs' = m_runs + 1
  /\ UNCHANGED <<m_processed_txt, m_processed_ids, m_si, m_taken, m_entry,
                 m_unresolved, m_delivered>>
  /\ UNCHANGED notmainpy

\* lines 199-211, 219-243: the checker's loop. The source has no further
\* entry or an exception ends the generator; or the next entry is dropped
\* by the date filter, skipped as processed, resolved and yielded, or
\* resolved in vain and written to the ledger
main_py_entry ==
  /\ m_pc = "check"
  /\ \/ /\ m_pc' = "sources"
        /\ UNCHANGED <<m_processed_txt, m_taken, m_entry, m_unresolved>>
     \/ /\ m_taken < MaxItems
        /\ m_taken' = m_taken + 1
        /\ \E item_id \in Ids, inside \in BOOLEAN,
              resolved \in {"text", "", None}, saved \in BOOLEAN :
             LET Entry(r) ==
                   [id |-> item_id, inside |-> inside, resolver |-> r]
             IN
             IF ~inside \/ item_id \in m_processed_ids
               THEN /\ m_entry' = Entry("not called")
                    /\ UNCHANGED <<m_pc, m_processed_txt, m_unresolved>>
             ELSE IF resolved = "text"
               THEN /\ m_entry' = Entry(resolved)
                    /\ m_unresolved' = [m_unresolved EXCEPT ![item_id] = 0]
                    /\ m_pc' = "process"
                    /\ UNCHANGED m_processed_txt
             ELSE /\ m_entry' = Entry(resolved)
                  /\ m_unresolved' =
                       [m_unresolved EXCEPT ![item_id] = m_runs + 1]
                  /\ IF saved
                       THEN /\ m_processed_txt' =
                                 save_processed_id(item_id, m_processed_txt)
                            /\ UNCHANGED m_pc
                       ELSE /\ m_pc' = "sources"
                            /\ UNCHANGED m_processed_txt
  /\ UNCHANGED <<m_processed_ids, m_runs, m_si, m_delivered>>
  /\ UNCHANGED notmainpy

\* lines 166-173, 274-276: the item is summarized, broadcast, written to a
\* file and to the ledger; an exception of save_to_markdown or of
\* save_processed_id leaves main
main_py_process_item ==
  /\ m_pc = "process"
  /\ m_delivered' = m_delivered \cup {m_entry.id}
  /\ \/ /\ m_processed_txt' = save_processed_id(m_entry.id, m_processed_txt)
        /\ m_pc' = "check"
        /\ UNCHANGED m_runs
     \/ /\ m_pc' = "idle"
        /\ m_runs' = m_runs + 1
        /\ UNCHANGED m_processed_txt
  /\ UNCHANGED <<m_processed_ids, m_si, m_taken, m_entry, m_unresolved>>
  /\ UNCHANGED notmainpy

NextMainPy ==
  \/ main_py_start
  \/ main_py_source
  \/ main_py_return
  \/ main_py_entry
  \/ main_py_process_item

SpecMainPy == InitIdle /\ [][NextMainPy]_vars

(* -------------- two runs that differ in the failed ledger ------------- *)
\* One run of main of src/content_automation_bot.py as a function of what
\* it is given: the ledgers, the entries its sources return and what
\* becomes of each call it makes. Two runs are given the same and are made
\* side by side; `events` holds the resolver call, the yield, the broadcast
\* and the markdown file a run has made for the entry it was given last.

\* ids of the failed ledger are passed over as well
IsCandidate_unless_failed(item_id, processed, failed) ==
  item_id \notin processed /\ item_id \notin failed

\* lines 582, 627: the test made on an id before the resolver is called;
\* failed_ids is read by the print of lines 586 and 642 only
IsCandidate(item_id, processed, failed) == item_id \notin processed

\* lines 684-685: both ledgers are loaded
run_main_start(st) ==
  [st EXCEPT !.pc = "sources",
             !.processed_ids = load_ids_from_file(st.processed_txt),
             !.failed_ids = load_ids_from_file(st.failed_txt)]

\* what a run did with an item and with which content
Event(name, item_id, text) ==
  [event |-> name, id |-> item_id, content |-> text]

\* lines 505-514: process_item; io: the file operation that raises, if one
\* does. broadcast_line_message returns whatever becomes of its POST
run_process_item(st, item_id, text, io) ==
  LET posted == [st EXCEPT !.events =
                   Append(st.events, Event("broadcast", item_id, text))]
      persisted == [posted EXCEPT !.events =
                      Append(posted.events, Event("persist", item_id, text))]
  IN  IF io = "save_to_markdown"
        THEN [posted EXCEPT !.pc = "crashed"]
      ELSE IF io = "save_id_to_file"
        THEN [persisted EXCEPT !.pc = "crashed"]
      ELSE IF io = "remove_id_from_file"
        THEN [persisted EXCEPT !.pc = "crashed",
                             !.processed_txt =
                               save_id_to_file(item_id, st.processed_txt)]
      ELSE [persisted EXCEPT !.processed_txt =
                             save_id_to_file(item_id, st.processed_txt),
                           !.failed_txt =
                             remove_id_from_file(item_id, st.failed_txt)]

\* what get_article_text returns for the pages it can be given (lines
\* 407-415), which a transcript is one of as well: a non-empty text
ArticleTexts == { extract_text(page) : page \in Pages }

\* only what is none of the two literals of get_article_text is content
HasContent_no_literal(c) ==
  c \notin {NoText, <<>>, NoArticleBody, NoValidContent}

\* lines 592, 646: `if transcript:`, `if article_text:`
HasContent(c) == c \notin {NoText, <<>>}

\* lines 580-605, 625-659, 702-705: what a checker and main make of one
\* entry; dropped: the date filter drops it, resolved: what the resolver
\* returns for it
run_check_entry(st, item_id, dropped, resolved, io) ==
  IF ~IsCandidate(item_id, st.processed_ids, st.failed_ids) \/ dropped
    THEN [st EXCEPT !.events = <<>>]
  ELSE LET called == [st EXCEPT !.events =
                        <<Event("resolve", item_id, resolved)>>]
           yielded == [called EXCEPT !.events =
                         Append(called.events,
                                Event("yield", item_id, resolved))]
       IN  IF HasContent(resolved)
             THEN run_process_item(yielded, item_id, resolved, io)
           ELSE IF io = "save_id_to_file"
             THEN [called EXCEPT !.pc = "sources"]
           ELSE [called EXCEPT !.failed_txt =
                                 save_id_to_file(item_id, st.failed_txt)]

\* lines 665-687: the two runs start with the same processed ledger and
\* with any failed ledgers
twin_main_start ==
  /\ twin[1].pc = "idle" /\ twin[2].pc = "idle"
  /\ \E p \in SUBSET Ids, f1 \in SUBSET Ids, f2 \in SUBSET Ids :
       /\ p \cap (f1 \cup f2) = {}
       /\ twin' =
            <<run_main_start([RunIdle EXCEPT !.processed_txt = p,
                                            !.failed_txt = f1]),
              run_main_start([RunIdle EXCEPT !.processed_txt = p,
                                            !.failed_txt = f2])>>
  /\ UNCHANGED <<twin_si, twin_taken>>
  /\ UNCHANGED nottwin

\* lines 689-700: the next enabled source; its checker is called
twin_next_source ==
  /\ \E c \in 1..2 : twin[c].pc = "sources"
  /\ twin_si < MaxSources
  /\ twin_si' = twin_si + 1
  /\ twin' = [c \in 1..2 |->
               IF twin[c].pc = "sources"
                 THEN [twin[c] EXCEPT !.pc = "check"] ELSE twin[c]]
  /\ UNCHANGED twin_taken
  /\ UNCHANGED nottwin

\* line 689, 707: no further source; main returns
twin_return ==
  /\ \E c \in 1..2 : twin[c].pc = "sources"
  /\ twin' = [c \in 1..2 |->
               IF twin[c].pc = "sources"
                 THEN [twin[c] EXCEPT !.pc = "done"] ELSE twin[c]]
  /\ UNCHANGED <<twin_si, twin_taken>>
  /\ UNCHANGED nottwin

\* lines 580, 625: the source has no further entry
twin_exhausted ==
  /\ \E c \in 1..2 : twin[c].pc = "check"
  /\ twin' = [c \in 1..2 |->
               IF twin[c].pc = "check"
                 THEN [twin[c] EXCEPT !.pc = "sources"] ELSE twin[c]]
  /\ UNCHANGED <<twin_si, twin_taken>>
  /\ UNCHANGED nottwin

\* the next entry of the source, the same in both runs with the same
\* outcome of every call
twin_entry ==
  /\ \E c \in 1..2 : twin[c].pc = "check"
  /\ twin_taken < MaxItems
  /\ twin_taken' = twin_taken + 1
  /\ \E item_id \in Ids :
       LET Both(dropped, resolved, io) ==
             twin' = [c \in 1..2 |->
                       IF twin[c].pc = "check"
                         THEN run_check_entry(twin[c], item_id, dropped,
                                              resolved, io)
                         ELSE twin[c]]
       IN  \/ Both(TRUE, NoText, "ok")
           \/ \E io \in {"ok", "save_id_to_file"} :
                Both(FALSE, NoText, io)
           \/ \E resolved \in ArticleTexts,
                 io \in {"ok", "save_to_markdown", "save_id_to_file",
                         "remove_id_from_file"} :
                Both(FALSE, resolved, io)
  /\ UNCHANGED twin_si
  /\ UNCHANGED nottwin

NextTwin ==
  \/ twin_main_start
  \/ twin_next_source
  \/ twin_return
  \/ twin_exhausted
  \/ twin_entry

SpecTwin == InitIdle /\ [][NextTwin]_vars

(* ------------- summarize_video: the cached Whisper model -------------- *)
\* generate_transcript_with_whisper is called again and again in one
\* process; `whisper_calls` holds one record for each call: the video, what
\* load_whisper_model attempted (the import, whisper.load_model) and gave,
\* and the pair the call returned.

\* the messages of the RuntimeErrors of lines 258, 264, 272, 294, 298, 309
\* and of any other exception, as str(exc) of line 322
WhisperMessage ==
  [failed_earlier |-> "whisper failed to load earlier",
   not_installed |-> "whisper is not installed",
   load_failed |-> "whisper model failed to load",
   download_failed |-> "yt-dlp failed to download the audio",
   no_audio_file |-> "no audio file after the download",
   no_text |-> "whisper gave no transcript",
   other |-> "another exception"]

WhisperCall(id) ==
  [video |-> id, imported |-> FALSE, loaded |-> FALSE,
   load |-> "not called", model |-> 0, text |-> NoText, error |-> None]

\* the flag is not looked at
MayLoad_without_flag(cached, failed) == cached = 0

\* lines 254-258: neither a model is cached nor has a load failed
MayLoad(cached, failed) == cached = 0 /\ ~failed

\* what `import whisper` does: it succeeds, raises ImportError, or raises
\* something else, which line 262 does not catch
ImportOutcomes == {"ok", "ImportError", "OSError"}

\* what whisper.load_model does: it returns a new model or raises
LoadOutcomes == {"ok", "raises"}

\* lines 250-274: load_whisper_model with the two globals as they are and
\* the model whisper.load_model would return; gives the globals as it
\* leaves them, what it attempted, and what it returned or raised
load_whisper_model(cached, failed, fresh, import, load) ==
  LET Gives(m, f, i, l, g, e) ==
        [MODEL |-> m, FAILED |-> f, imported |-> i, loaded |-> l,
         gave |-> g, message |-> e]
  IN  IF cached # 0
        THEN Gives(cached, failed, FALSE, FALSE, "returned", None)
      ELSE IF ~MayLoad(cached, failed)
        THEN Gives(cached, failed, FALSE, FALSE, "RuntimeError",
                   WhisperMessage.failed_earlier)
      ELSE IF import = "ImportError"
        THEN Gives(cached, TRUE, TRUE, FALSE, "RuntimeError",
                   WhisperMessage.not_installed)
      ELSE IF import # "ok"
        THEN Gives(cached, failed, TRUE, FALSE, import, WhisperMessage.other)
      ELSE IF load = "raises"
        THEN Gives(cached, TRUE, TRUE, TRUE, "RuntimeError",
                   WhisperMessage.load_failed)
      ELSE Gives(fresh, failed, TRUE, TRUE, "returned", None)

\* the call in progress, and the calls with one field of it set
ThisCall == whisper_calls[Len(whisper_calls)]

WhisperReturns(text, message) ==
  /\ whisper_calls' =
       [whisper_calls EXCEPT ![Len(whisper_calls)] =
          [ThisCall EXCEPT !.text = text, !.error = message]]
  /\ wpc' = "idle"

\* line 313: generate_transcript_with_whisper(video_id) is called
whisper_generate ==
  /\ wpc = "idle"
  /\ Len(whisper_calls) < MaxCalls
  /\ \E id \in Ids :
       whisper_calls' = Append(whisper_calls, WhisperCall(id))
  /\ wpc' = "download"
  /\ UNCHANGED <<WHISPER_MODEL, WHISPER_IMPORT_FAILED, loads>>
  /\ UNCHANGED notwhisper

\* lines 316-318, 277-300, 321-322: the audio is downloaded, or yt-dlp
\* fails, or no file is found after it
whisper_download ==
  /\ wpc = "download"
  /\ \/ wpc' = "load" /\ UNCHANGED whisper_calls
     \/ WhisperReturns(NoText, WhisperMessage.download_failed)
     \/ WhisperReturns(NoText, WhisperMessage.no_audio_file)
  /\ UNCHANGED <<WHISPER_MODEL, WHISPER_IMPORT_FAILED, loads>>
  /\ UNCHANGED notwhisper

\* lines 305, 250-274, 321-322: transcribe_audio_with_whisper calls
\* load_whisper_model; what it raises ends the call with its message
whisper_load ==
  /\ wpc = "load"
  /\ \E import \in ImportOutcomes, load \in LoadOutcomes :
       LET r == load_whisper_model(WHISPER_MODEL, WHISPER_IMPORT_FAILED,
                                   loads + 1, import, load)
           call == [ThisCall EXCEPT !.imported = r.imported,
                                    !.loaded = r.loaded,
                                    !.load = r.gave,
                                    !.model =
                                      IF r.gave = "returned"
                                        THEN r.MODEL ELSE 0,
                                    !.error = r.message]
       IN  /\ WHISPER_MODEL' = r.MODEL
           /\ WHISPER_IMPORT_FAILED' = r.FAILED
           /\ loads' = IF r.loaded THEN loads + 1 ELSE loads
           /\ whisper_calls' =
                [whisper_calls EXCEPT ![Len(whisper_calls)] = call]
           /\ wpc' = IF r.gave = "returned" THEN "transcribe" ELSE "idle"
  /\ UNCHANGED notwhisper

\* what model.transcribe gives under "text"
WhisperTexts == { <<>>, <<" ", "\n">>, <<" ", "a", " ">> }

\* lines 306-310, 320-322: the model transcribes the audio; the stripped
\* text is returned unless it is empty or model.transcribe raises
whisper_transcribe ==
  /\ wpc = "transcribe"
  /\ \/ \E text \in WhisperTexts :
          IF strip(text) # <<>>
            THEN WhisperReturns(strip(text), None)
            ELSE WhisperReturns(NoText, WhisperMessage.no_text)
     \/ WhisperReturns(NoText, WhisperMessage.other)
  /\ UNCHANGED <<WHISPER_MODEL, WHISPER_IMPORT_FAILED, loads>>
  /\ UNCHANGED notwhisper

NextWhisper ==
  \/ whisper_generate
  \/ whisper_download
  \/ whisper_load
  \/ whisper_transcribe

SpecWhisper == InitIdle /\ [][NextWhisper]_vars

(* ------------------------------ properties ---------------------------- *)
ProcessItemPcs == { process_item_calls[i] : i \in DOMAIN process_item_calls }

CheckerPcs == {"discover", "entries", "check", "resolve", "mark_failed"}

IsPrefix(s, t) == Len(s) <= Len(t) /\ \A i \in DOMAIN s : s[i] = t[i]

Calls(s) == { s[i] : i \in DOMAIN s }

\* C1: when main has returned from a run that started with disjoint ledgers,
\* no id is in both the processed and the failed ledger.
C1_DisjointAfterRun ==
  (pc = "done" /\ start_processed \cap start_failed = {})
    => processed_ids_txt \cap failed_ids_txt = {}

\* C2: no id is broadcast more than once, over all runs.
C2_BroadcastAtMostOnce == repeated = {}

\* C3: when main has returned, every id whose item was resolved and then
\* summarized, broadcast and persisted in this run is in the processed
\* ledger and not in the failed ledger.
C3_CompletedIsProcessed ==
  pc = "done" =>
    \A id \in completed :
      id \in processed_ids_txt /\ id \notin failed_ids_txt

\* C4: as long as every item the sources have returned in this run was in
\* the processed ledger when the run started, process_item has not been
\* entered: nothing was broadcast and no markdown file was written.
C4_Idempotent ==
  returned \subseteq start_processed =>
    /\ pc \notin ProcessItemPcs
    /\ delivered = {}
    /\ completed = {}

\* a run has returned in which the sources returned items, all of them
\* already processed
C4_Witness ==
  /\ pc = "done"
  /\ returned # {}
  /\ returned \subseteq start_processed


\* C5 (as claimed): when the resolver has returned None the checker adds the
\* id to the failed ledger and goes on with the next item of the same
\* source; and when an id whose resolver failed in an earlier run is met
\* inside the date filter, the resolver is called on it.
C5_FailedIsRetried ==
  [][ /\ pc = "mark_failed" =>
           /\ entry.id \in failed_ids_txt'
           /\ pc' = "entries"
           /\ source' = source
      /\ (pc = "check" /\ entry.id \in pending
            /\ InsideFilter(entry, filtered)) => pc' = "resolve" ]_vars

\* C5 (amended): when the resolver has returned None the item is not yielded
\* and the checker writes its id to the failed ledger; if the write returns,
\* the id is in the failed ledger and the checker goes on with the next
\* item of the same source, and if it raises, the checker ends with both
\* ledgers unchanged.  When an id whose resolver failed in an earlier run is
\* met inside the date filter and was not in the processed ledger when the
\* run started, the resolver is called on it.
C5_FailedIsRetriedUnlessProcessed ==
  [][ /\ pc = "mark_failed" =>
           \/ /\ pc' = "entries"
              /\ source' = source
              /\ entry.id \in failed_ids_txt'
           \/ /\ pc' = "sources"
              /\ UNCHANGED ledgers
      /\ (pc = "check" /\ entry.id \in pending
            /\ InsideFilter(entry, filtered)
            /\ entry.id \notin start_processed) => pc' = "resolve" ]_vars

\* in a later run the resolver is called on an id that an earlier run
\* left in the failed ledger
C5_Witness ==
  /\ runs >= 2
  /\ pc = "resolve"
  /\ entry.id \in start_failed

\* C6: the resolver is never called on, and no item is yielded for, an id
\* that was in the processed ledger when the run started, and no such id is
\* added to the failed ledger.
C6_ProcessedNeverResolved ==
  /\ [](pc \in {"resolve", "mark_failed"} \cup ProcessItemPcs
          => entry.id \notin start_processed)
  /\ [][ \A id \in start_processed :
           id \in failed_ids_txt' => id \in failed_ids_txt ]_vars

\* an item whose id was in the processed ledger has been met and passed over
C6_Witness ==
  /\ pc = "entries"
  /\ returned \cap start_processed # {}

\* C7: process_item makes its calls in the order summarize, broadcast,
\* persist, append to processed, remove from failed; the processed ledger
\* changes only in the append step, after persist has returned, and no step
\* of a checker changes it.
C7_Order ==
  <<"summarize", "broadcast", "persist", "save_processed", "remove_failed">>

C7_PipelineOrder ==
  /\ [](IsPrefix(steps, C7_Order))
  /\ [][ /\ processed_ids_txt' # processed_ids_txt =>
              /\ pc = "save_processed"
              /\ "persist" \in Calls(steps)
         /\ pc \in CheckerPcs => processed_ids_txt' = processed_ids_txt ]_vars

\* the first four calls have been made for a yielded item
C7_Witness ==
  /\ pc = "remove_failed"
  /\ Len(steps) = 4
  /\ entry.id \in processed_ids_txt \ start_processed

\* C8: no step removes an id from the processed ledger, so the ledger always
\* contains what it contained when the run started.
C8_ProcessedAppendOnly ==
  /\ [][processed_ids_txt \subseteq processed_ids_txt']_vars
  /\ [](start_processed \subseteq processed_ids_txt)

\* a run has returned that appended to a non-empty processed ledger and
\* removed an id from the failed ledger
C8_Witness ==
  /\ pc = "done"
  /\ start_processed # {}
  /\ processed_ids_txt # start_processed
  /\ start_failed \ failed_ids_txt # {}

\* C9: no exception leaves main.
C9_NoExceptionEscapes == pc # "crashed"

\* C10: get_summary_from_llm always returns one of its strings, process_item
\* goes on to broadcast after it, and an item whose summary is one of the
\* failure messages has been broadcast and persisted and is in the
\* processed ledger when process_item reaches its last call.
SummaryStrings ==
  {"not_configured", "library_missing", "call_failed", "no_summary",
   "summary"}

C10_DegradedSummaryFlowsOn ==
  /\ [](pc \in ProcessItemPcs \ {"summarize"} => summary \in SummaryStrings)
  /\ []((pc = "remove_failed" /\ summary # "summary") =>
          /\ steps = SubSeq(C7_Order, 1, 4)
          /\ entry.id \in completed
          /\ entry.id \in processed_ids_txt)
  /\ [][pc = "summarize" => pc' = "broadcast"]_vars

\* the call of the LLM raised and the item went through to the last call
C10_Witness ==
  /\ pc = "remove_failed"
  /\ summary = "call_failed"


\* number of attempts: calls of TranscriptAPI.get_transcript in a trace
DirectCalls(t) ==
  Cardinality({i \in 1..Len(t) : t[i].call = "get_transcript"})

\* C11: the resolver returns transcript text or None whatever the caption
\* client returns or raises at any of its calls; no exception leaves it.
C11_ResolverNeverRaises ==
  /\ rpc # "raised"
  /\ rpc = "returned" => transcript \in {"text", None}

\* the resolver has returned None after each of the three calls of the
\* caption client raised
C11_Witness ==
  /\ rpc = "returned"
  /\ transcript = None
  /\ \A c \in {"get_transcript", "list_transcripts", "get_transcripts"} :
       \E i \in 1..Len(trace) : trace[i].call = c /\ trace[i].raised # None

\* C12: when the retry loop catches an exception whose message contains,
\* in any letter case, one of disabled, not available, no transcript,
\* private, unavailable, not found, nothing follows in the loop: the
\* resolver is at its next stage or has returned, and if that exception was
\* the first one caught, exactly one attempt was made.
C12_Keywords ==
  { <<"d", "i", "s", "a", "b", "l", "e", "d">>,
    <<"n", "o", "t", " ", "a", "v", "a", "i", "l", "a", "b", "l", "e">>,
    <<"n", "o", " ", "t", "r", "a", "n", "s", "c", "r", "i", "p", "t">>,
    <<"p", "r", "i", "v", "a", "t", "e">>,
    <<"u", "n", "a", "v", "a", "i", "l", "a", "b", "l", "e">>,
    <<"n", "o", "t", " ", "f", "o", "u", "n", "d">> }

C12_Permanent(m) == \E k \in C12_Keywords : Contains(k, lower(m))

C12_PermanentStopsRetry ==
  \A i \in 1..Len(trace) :
    (trace[i].call = "except" /\ C12_Permanent(trace[i].msg)) =>
       /\ i = Len(trace)
       /\ rpc \in {"fallback", "returned"}
       /\ (\A j \in 1..(i - 1) : trace[j].call # "except")
            => DirectCalls(trace) = 1

\* with the largest max_retries, the first attempt failed with "PRIVATE"
\* and the resolver has returned after that one attempt
C12_Witness ==
  /\ rpc = "returned"
  /\ max_retries = MaxRetries
  /\ DirectCalls(trace) = 1
  /\ trace[1].call = "get_transcript"
  /\ trace[1].msg = <<"P", "R", "I", "V", "A", "T", "E">>

\* C13 (as claimed): at most max_retries attempts are made; when the direct
\* fetch of every attempt raised an error whose message names no permanent
\* condition, exactly max_retries attempts were made, each but the first
\* straight after a delay, and the loop returned None; with max_retries = 0
\* nothing is called and None is returned.
C13_Retries(every_fetch_failed) ==
  /\ DirectCalls(trace) <= max_retries
  /\ (rpc \in {"fallback", "returned"} /\ every_fetch_failed) =>
       /\ DirectCalls(trace) = max_retries
       /\ transcript = None
       /\ \A i \in 1..Len(trace) :
            trace[i].call = "get_transcript" =>
              IF \E j \in 1..(i - 1) : trace[j].call = "get_transcript"
                THEN trace[i - 1].call = "smart_delay"
                ELSE i = 1
  /\ (max_retries = 0 /\ rpc \in {"fallback", "returned"}) =>
       /\ trace = <<>>
       /\ transcript = None

C13_BoundedRetries ==
  C13_Retries(\A i \in 1..Len(trace) :
                trace[i].call = "get_transcript" =>
                  /\ trace[i].raised # None
                  /\ ~C12_Permanent(trace[i].msg))

\* C13 (amended): the same, for errors of the direct fetch other than the
\* AttributeError of an unsupported call.
C13_BoundedRetriesOfErrors ==
  C13_Retries(\A i \in 1..Len(trace) :
                trace[i].call = "get_transcript" =>
                  /\ trace[i].raised \notin {None, "AttributeError"}
                  /\ ~C12_Permanent(trace[i].msg))

\* the largest max_retries, every attempt failed with "timed out"
C13_Witness ==
  /\ rpc = "returned"
  /\ max_retries = MaxRetries
  /\ DirectCalls(trace) = MaxRetries
  /\ \A i \in 1..Len(trace) :
       trace[i].call = "get_transcript" =>
         trace[i].msg = <<"t", "i", "m", "e", "d", " ", "o", "u", "t">>

\* C14: an attempt begins with the direct fetch; list_transcripts is called
\* only straight after a direct fetch that raised AttributeError, and
\* get_transcripts only straight after a list_transcripts that raised
\* AttributeError; after a direct fetch that raised anything else the
\* handler of the loop comes next; and after a call that produced a
\* transcript nothing more is called.
C14_StrictOrder ==
  \A i \in 1..Len(trace) :
    /\ trace[i].call = "get_transcript" =>
         i = 1 \/ trace[i - 1].call = "smart_delay"
    /\ trace[i].call = "list_transcripts" =>
         /\ i > 1
         /\ trace[i - 1].call = "get_transcript"
         /\ trace[i - 1].raised = "AttributeError"
    /\ trace[i].call = "get_transcripts" =>
         /\ i > 1
         /\ trace[i - 1].call = "list_transcripts"
         /\ trace[i - 1].raised = "AttributeError"
    /\ (trace[i].call = "get_transcript"
          /\ trace[i].raised \notin {None, "AttributeError"}) =>
         (i < Len(trace) => trace[i + 1].call = "except")
    /\ trace[i].list = "items" => i = Len(trace)

\* the three strategies were tried in one attempt and the last one
\* produced the transcript
C14_Witness ==
  /\ rpc = "returned"
  /\ transcript = "text"
  /\ Len(trace) = 3
  /\ trace[3].call = "get_transcripts"

\* C15: when the resolver returns None the audio has been downloaded (and
\* transcribed if the download gave a file).
C15_AudioFallbackAttempted ==
  (rpc = "returned" /\ transcript = None) =>
    \E i \in 1..Len(trace) : trace[i].call = "download"


\* C16: when a resolver that downloads audio has returned, no downloaded
\* audio file is left on disk.
C16_NoAudioFileRemains ==
  apc = "returned" => disk = {}


\* t1 is earlier than t2
C17_Before(t1, t2) ==
  \/ t1.year < t2.year
  \/ t1.year = t2.year /\ t1.month < t2.month
  \/ t1.year = t2.year /\ t1.month = t2.month /\ t1.day < t2.day
  \/ /\ t1.year = t2.year /\ t1.month = t2.month /\ t1.day = t2.day
     /\ t1.minute < t2.minute

\* the arguments name a month, or a day, of the calendar
C17_IsFilter ==
  /\ args.year # <<>> /\ args.month # <<>>
  /\ ValidDate(args.year[1], args.month[1],
               IF args.date # <<>> THEN args.date[1] ELSE 1)

\* 00:00 of the first day of the month, or of the given day
C17_Start ==
  [year |-> args.year[1], month |-> args.month[1],
   day |-> IF args.date # <<>> THEN args.date[1] ELSE 1, minute |-> 0]

\* 00:00 of the first day of the next month
C17_NextMonth ==
  IF args.month[1] = 12
    THEN [year |-> args.year[1] + 1, month |-> 1, day |-> 1, minute |-> 0]
    ELSE [year |-> args.year[1], month |-> args.month[1] + 1, day |-> 1,
          minute |-> 0]

\* 00:00 of the first day of the next month, or of the next day
C17_End ==
  IF args.date = <<>> THEN C17_NextMonth
  ELSE IF args.date[1] < DaysInMonth(args.year[1], args.month[1])
    THEN [C17_Start EXCEPT !.day = @ + 1]
    ELSE C17_NextMonth

\* C17: for a date filter the YouTube checker sends [start, end) as the
\* bounds of its query, and the RSS checker keeps exactly the entries whose
\* publish time is in [start, end): start is 00:00 of the first day of the
\* month or of the given day, end is 00:00 of the first day of the next
\* month (January of the next year after December) or of the next day.
C17_DateWindow ==
  C17_IsFilter =>
    /\ cpc \notin {"usage_error", "youtube_error"}
    /\ cpc \in {"youtube_query", "rss_checked"} =>
         /\ published_after = C17_Start
         /\ published_before = C17_End
    /\ cpc = "rss_checked" =>
         (kept <=> /\ entry_time # NoTime
                   /\ ~C17_Before(entry_time, C17_Start)
                   /\ C17_Before(entry_time, C17_End))

\* year 2025, month 6: the entry of 2025-06-01T00:00 is kept
C17_Witness ==
  /\ cpc = "rss_checked"
  /\ args = [year |-> <<2025>>, month |-> <<6>>, date |-> <<>>]
  /\ entry_time = [year |-> 2025, month |-> 6, day |-> 1, minute |-> 0]
  /\ kept

\* C20: main ends with a usage error exactly when --date is supplied without
\* both --year and --month, or exactly one of --year and --month is
\* supplied, whatever the values.
C20_UsageErrors ==
  cpc \in {"usage_error", "accepted"} =>
    (cpc = "usage_error" <=>
       \/ args.date # <<>> /\ ~(args.year # <<>> /\ args.month # <<>>)
       \/ (args.year # <<>>) # (args.month # <<>>))


\* C18: a step taken on an RSS entry that is not in main's processed ids
\* and whose publish time is outside the date filter of the run, or absent
\* while a filter is active, goes on to the next entry and changes neither
\* ledger: the resolver is not called and nothing is yielded.
C18_FilterDropChangesNothing ==
  [][ (/\ pc = "check"
       /\ source.type = "rss"
       /\ filtered
       /\ entry.pub # "in"
       /\ entry.id \notin processed_ids) =>
        /\ pc' = "entries"
        /\ UNCHANGED ledgers
        /\ UNCHANGED <<unresolved, completed, delivered, steps>> ]_vars

\* the only entry the run has met was dropped by the filter
C18_Witness ==
  /\ pc = "entries"
  /\ filtered
  /\ source.type = "rss"
  /\ taken = 1
  /\ returned # {}
  /\ returned \cap start_processed = {}
  /\ unresolved = {}
  /\ completed = {}

\* C19: when load_config has returned None, main returns at once: the
\* ledgers are neither read nor written, no checker runs and no item is
\* summarized, broadcast or persisted.
C19_NoConfigNoAction ==
  /\ [](config = NoConfig =>
          /\ pc \in {"idle", "done"}
          /\ processed_ids = {} /\ failed_ids = {}
          /\ si = 0
          /\ returned = {} /\ steps = <<>>
          /\ delivered = {} /\ completed = {})
  /\ [][config = NoConfig => UNCHANGED ledgers]_vars

\* main has returned without a configuration and without having read the
\* ids of its ledgers
C19_Witness ==
  /\ pc = "done"
  /\ config = NoConfig
  /\ processed_ids_txt # {}
  /\ failed_ids_txt # {}
  /\ processed_ids = {}


C21_Trimmed(s) ==
  LET I == {i \in 1..Len(s) : s[i] \notin Whitespace} IN
  IF I = {} THEN <<>>
  ELSE SubSeq(s, CHOOSE i \in I : \A j \in I : i <= j,
                 CHOOSE i \in I : \A j \in I : i >= j)

RECURSIVE C21_Lines(_)
C21_Lines(texts) ==
  IF Len(texts) = 1 THEN texts[1]
  ELSE C21_Lines(SubSeq(texts, 1, Len(texts) - 1))
         \o <<"\n">> \o texts[Len(texts)]

C21_Expected(page) ==
  LET M == {i \in DOMAIN content_selectors :
              page[content_selectors[i]].matched} IN
  IF M = {} THEN NoArticleBody
  ELSE LET first == CHOOSE i \in M : \A j \in M : i <= j
           ps == page[content_selectors[first]].paragraphs
           nonempty == SelectSeq([i \in 1..Len(ps) |-> C21_Trimmed(ps[i])],
                                 LAMBDA t : t # <<>>)
       IN IF nonempty = <<>> THEN NoValidContent ELSE C21_Lines(nonempty)

\* C21: when the last GET of get_article_text answered with a page, the
\* value returned is not None: it is the no-body literal if no selector
\* matches, else, for the first selector of content_selectors that matches,
\* the no-valid-content literal if the element has no paragraph with text,
\* else its trimmed non-empty paragraphs in order, joined by newlines.
C21_FetchedPageGivesText ==
  (gpc = "returned" /\ gets # <<>> /\ gets[Len(gets)] = "page") =>
    /\ article_text # NoText
    /\ article_text = C21_Expected(soup)

\* a page whose first selector matches nothing and whose second and third
\* match different elements, the text of several paragraphs being returned
C21_Witness ==
  /\ gpc = "returned"
  /\ gets # <<>> /\ gets[Len(gets)] = "page"
  /\ ~soup["article"].matched
  /\ soup["main"].matched /\ soup[".content"].matched
  /\ soup["main"] # soup[".content"]
  /\ \E i \in 1..Len(article_text) : article_text[i] = "\n"

C22_Gets == SelectSeq(gets, LAMBDA g : g # "smart_delay")

\* C22: get_article_text makes at most max_retries GETs, every GET but the
\* last one has raised, it returns as soon as a GET has not raised, and the
\* value it returns is None exactly when max_retries GETs were made and all
\* of them raised.
C22_BoundedGets ==
  /\ Len(C22_Gets) <= article_retries
  /\ \A i \in 1..(Len(C22_Gets) - 1) : C22_Gets[i] = "raised"
  /\ (C22_Gets # <<>> /\ C22_Gets[Len(C22_Gets)] = "page") =>
       gpc = "returned"
  /\ gpc = "returned" =>
       (article_text = NoText <=>
          /\ Len(C22_Gets) = article_retries
          /\ \A i \in 1..Len(C22_Gets) : C22_Gets[i] = "raised")

\* two GETs raised, the third answered, its text was returned
C22_Witness ==
  /\ gpc = "returned"
  /\ article_retries = 3
  /\ C22_Gets = <<"raised", "raised", "page">>
  /\ article_text # NoText

\* all max_retries GETs raised and None was returned
C22_WitnessNone ==
  /\ gpc = "returned"
  /\ article_retries = 2
  /\ C22_Gets = <<"raised", "raised">>
  /\ article_text = NoText

C23_Unset(value) ==
  \/ value = NoText
  \/ value = <<>>
  \/ \E i, j \in 1..Len(value) : SubSeq(value, i, j) = PlaceholderMarker

\* C23: with an LLM API key that is absent, empty or holds the placeholder
\* marker, get_summary_from_llm returns the not-configured message and no
\* request goes to the LLM service; with an access token that is absent,
\* empty or holds the marker, broadcast_line_message sends no request.
C23_NoRequestWithoutKey ==
  /\ (opc # "idle" /\ C23_Unset(api_key)) =>
       /\ llm_summary = "not_configured"
       /\ \A i \in 1..Len(net) : net[i].to # "gemini"
  /\ (opc = "broadcast" /\ C23_Unset(access_token)) =>
       \A i \in 1..Len(net) : net[i].to # "line"

\* both calls were made with a placeholder inside a longer value
C23_Witness ==
  /\ opc = "broadcast"
  /\ api_key = <<"(">> \o PlaceholderMarker \o <<")">>
  /\ access_token = PlaceholderMarker \o <<"k", "e", "y">>
  /\ net = <<>>

C24_Calls == SelectSeq(ylog, LAMBDA c : c.call # "_fetch_video_title")

C24_Last == C24_Calls[Len(C24_Calls)]

C24_TitleFetches == { i \in 1..Len(ylog) : ylog[i].call = "_fetch_video_title" }

\* the last call was the listing, the probe or the track lookup, and it
\* raised an exception of this type
C24_Raised(type) ==
  /\ C24_Calls # <<>>
  /\ C24_Last.call \in {"list_transcripts", "list", "get_transcript",
                        "fetch", "find_transcript"}
  /\ C24_Last.outcome = Raised(type, <<>>)

C24_Disabled ==
  C24_Raised("TranscriptsDisabled") =>
    /\ ypc = "returned"
    /\ yresult.transcript = NoText
    /\ yresult.message = Message.disabled
    /\ \E i \in C24_TitleFetches : ylog[i].outcome.value = yresult.title

\* C24 as stated: when the listing, the probe or the track lookup raises
\* TranscriptsDisabled, get_youtube_content returns the title it fetched,
\* no transcript and the captions-disabled message; when one of them raises
\* VideoUnavailable it returns no title, no transcript and the
\* video-unavailable message, and has not fetched the title.
C24_CaptionErrorIsResult ==
  /\ C24_Disabled
  /\ C24_Raised("VideoUnavailable") =>
       /\ ypc = "returned"
       /\ yresult = Triple(None, NoText, Message.unavailable)
       /\ C24_TitleFetches = {}

\* C24 amended: as stated, except that the title has not been fetched only
\* when the listing or the probe raised VideoUnavailable; when the track
\* lookup raised it the title was fetched once, before the lookup, and is
\* not returned.
C24_CaptionErrorIsResultTitleDropped ==
  /\ C24_Disabled
  /\ C24_Raised("VideoUnavailable") =>
       /\ ypc = "returned"
       /\ yresult = Triple(None, NoText, Message.unavailable)
       /\ IF C24_Last.call = "find_transcript"
            THEN /\ Cardinality(C24_TitleFetches) = 1
                 /\ \A i \in C24_TitleFetches : ylog[i + 1] = C24_Last
            ELSE C24_TitleFetches = {}

\* the track lookup raised VideoUnavailable after the title had been fetched
C24_Witness ==
  /\ ypc = "returned"
  /\ C24_Raised("VideoUnavailable")
  /\ C24_Last.call = "find_transcript"
  /\ title = "title"
  /\ yresult.title = None

C25_Codes == [i \in 1..Len(transcripts) |-> transcripts[i].language_code]

C25_First(codes) ==
  { i \in 1..Len(codes) : \A j \in 1..(i - 1) : codes[j] # codes[i] }

RECURSIVE C25_Listed(_, _)
C25_Listed(codes, n) ==
  IF n = 0 THEN <<>>
  ELSE IF n \notin C25_First(codes) THEN C25_Listed(codes, n - 1)
  ELSE IF C25_Listed(codes, n - 1) = <<>> THEN <<codes[n]>>
  ELSE C25_Listed(codes, n - 1) \o <<", ", codes[n]>>

\* C25: when a listing was returned, find_transcript raised
\* NoTranscriptFound and every translation asked for raised
\* NoTranscriptFound, get_youtube_content returns the title, no transcript
\* and, for a listing without tracks, the no-captions message, else the
\* message that lists the language codes of the tracks, each once, in the
\* order of their first occurrence in the listing.
C25_LanguagesMessage ==
  (/\ ypc = "returned"
   /\ \E i \in 1..Len(ylog) :
        ylog[i] = ApiCall("find_transcript", Raised("NoTranscriptFound", <<>>))
   /\ \A i \in 1..Len(ylog) :
        ylog[i].call = "translate" =>
          ylog[i].outcome = Raised("NoTranscriptFound", <<>>)) =>
    /\ yresult.title = title
    /\ yresult.transcript = NoText
    /\ yresult.message =
         IF transcripts = <<>> THEN Message.no_captions
         ELSE <<"only these languages: ">>
                \o C25_Listed(C25_Codes, Len(C25_Codes)) \o <<".">>

\* three tracks in two languages, one of them translatable in vain
C25_Witness ==
  /\ ypc = "returned"
  /\ C25_Codes = <<"en", "ja", "en">>
  /\ \E i \in 1..Len(ylog) : ylog[i].call = "translate"
  /\ yresult.message = <<"only these languages: ", "en", ", ", "ja", ".">>

\* C26: for an owner that is a class whose method needs an instance,
\* _call_transcript_method instantiates owner once; when that succeeds the
\* body runs once, on the instance, and what it returns is returned.
C26_InstantiatesOnce ==
  (ctm.called /\ ctm.owner.is_class /\ ctm.owner.attr = "needs_self") =>
    /\ ctm.instances = 1
    /\ ctm.instantiation = "ok" =>
         /\ ctm.runs = 1
         /\ ctm.bound.kind = "returns" => ctm.outcome = ctm.bound

\* the case of test_call_transcript_method_instantiates_owner_for_instance_method
C26_Witness ==
  /\ ctm.called
  /\ ctm.owner = [is_class |-> TRUE, attr |-> "needs_self"]
  /\ ctm.instantiation = "ok"
  /\ ctm.bound = Returned("value")
  /\ ctm.outcome = Returned("value")

C27_Unrelated(b) ==
  /\ b.kind = "raises"
  /\ b.type = "TypeError"
  /\ ~\E i, j \in 1..Len(b.msg) : SubSeq(b.msg, i, j) = PositionalArgument

C28_CompatibilityPathsRetried ==
  \A i \in 1..Len(trace) :
    (/\ rpc \in {"fallback", "returned"}
     /\ trace[i].call \in {"list_transcripts", "get_transcripts"}
     /\ trace[i].raised = "Exception"
     /\ ~C12_Permanent(trace[i].msg)) =>
       \/ DirectCalls(trace) = max_retries
       \/ \E j \in (i + 1)..Len(trace) : trace[j].call = "get_transcript"

C29_Languages == { i \in 1..Len(lookups) : lookups[i].call = "find_transcript" }

\* C29: the searches in the listing are made in this order: an exact search
\* for each preferred language in list order, then a manually created
\* transcript over the whole list, then a generated one over the whole list;
\* a search is made only when every earlier one was not found or not
\* fetched, and the list of the first search that was fetched is the result.
C29_MatchOrder ==
  /\ \A i \in 1..Len(lookups) :
       /\ \A j \in 1..(i - 1) : lookups[j].outcome \notin ListKinds
       /\ lookups[i].call = "find_transcript" =>
            /\ i <= Len(preferred_langs)
            /\ lookups[i].languages = <<preferred_langs[i]>>
       /\ lookups[i].call = "find_manually_created_transcript" =>
            /\ i = Len(preferred_langs) + 1
            /\ C29_Languages = 1..Len(preferred_langs)
            /\ lookups[i].languages = preferred_langs
       /\ lookups[i].call = "find_generated_transcript" =>
            /\ i = Len(preferred_langs) + 2
            /\ lookups[i - 1].call = "find_manually_created_transcript"
            /\ lookups[i].languages = preferred_langs
  /\ mpc = "done" =>
       found = IF lookups[Len(lookups)].outcome \in ListKinds
                 THEN lookups[Len(lookups)].outcome
                 ELSE None

\* no language and no manual transcript was fetched, the generated one was
C29_Witness ==
  /\ mpc = "done"
  /\ Len(lookups) = Len(preferred_langs) + 2
  /\ found = "items"

\* C30: get_youtube_content never raises: whatever the transcript API does,
\* the call ends with a triple returned.
C30_NeverRaises == ypc # "raised"

C31_Translations == { i \in 1..Len(ylog) : ylog[i].call = "translate" }

C31_Translatable == { i \in 1..ti : transcripts[i].is_translatable }

\* C31: get_youtube_content asks for a translation only after
\* find_transcript raised NoTranscriptFound on a listing without a track in
\* the languages looked up; it asks the translatable tracks, in the order of
\* the listing, and no track after the one whose translation succeeded;
\* that track is the one it fetches, and when the fetch gives a text that
\* is not blank it returns the title, that text and no message.
C31_FirstTranslationIsFetched ==
  /\ C31_Translations # {} =>
       /\ \A j \in 1..Len(transcripts), k \in 1..Len(wanted_languages) :
            transcripts[j].language_code # wanted_languages[k]
       /\ \E i \in 1..Len(ylog) :
            /\ ylog[i] = ApiCall("find_transcript",
                                 Raised("NoTranscriptFound", <<>>))
            /\ \A j \in C31_Translations : i < j
  /\ ypc \in {"enumerate", "fetch_track", "raised", "returned"} =>
       Cardinality(C31_Translations) = Cardinality(C31_Translatable)
  /\ \A i \in C31_Translations :
       IF ylog[i].outcome.kind = "returns"
         THEN /\ \A j \in C31_Translations : j <= i
              /\ transcript_obj = ti
              /\ transcripts[ti].is_translatable
         ELSE (\E j \in C31_Translations : j > i) =>
                ylog[i].outcome = Raised("NoTranscriptFound", <<>>)
  /\ (/\ ypc = "returned"
      /\ \E i \in C31_Translations : ylog[i].outcome.kind = "returns"
      /\ ylog[Len(ylog)] = ApiCall("transcript_obj.fetch",
                                   Returned("entries"))) =>
       yresult = Triple(title, <<ToString(ti), " ", "b">>, NoText)

\* the first track cannot be translated, the translation of the second
\* failed, the third was translated and its text is returned
C31_Witness ==
  /\ ypc = "returned"
  /\ Len(transcripts) = 3
  /\ C31_Translatable = {2, 3}
  /\ Cardinality(C31_Translations) = 2
  /\ yresult.transcript = <<"3", " ", "b">>
  /\ yresult.message = NoText

\* the checker has just taken an entry
C32_Taken == m_pc = "check" /\ m_taken' = m_taken + 1

\* C32: in src/main.py, a resolver that returns no content for an item
\* leaves the ledger of processed ids as it is, and an item whose resolver
\* returned no content in an earlier run has the resolver called on it when
\* a source returns it inside the date filter.
C32_UnresolvedIsRetried ==
  [][/\ (C32_Taken /\ m_entry'.resolver \in {"", None}) =>
         m_processed_txt' = m_processed_txt
     /\ (/\ C32_Taken
         /\ m_entry'.inside
         /\ m_unresolved[m_entry'.id] \in 1..m_runs) =>
         m_entry'.resolver # "not called"]_vars

\* C33: within a run the resolver is not called a second time on an id
\* whose item was yielded and whose id was appended to the processed
\* ledger earlier in that run: the id is skipped when it is met again.
C33_OncePerRun ==
  pc = "resolve" => entry.id \notin processed_ids_txt \ start_processed

\* an id that was in the failed ledger when the run started and is not in
\* it now is the id of an item this run has summarized, broadcast,
\* persisted and appended to the processed ledger
C34_OnlyProcessedLeaveFailed ==
  \A i \in start_failed \ failed_ids_txt :
    i \in completed /\ i \in processed_ids_txt \ start_processed

\* C34: the failed ledger loses an id only at the end of process_item, and
\* then the id of the item just processed and no other; so every id that
\* was in the failed ledger when the run started and whose item the run has
\* not processed successfully (it was not returned by a source, was dropped
\* by the date filter or was resolved in vain) is still in the ledger,
\* during the run and when it ends.
C34_FailedKeptUnlessProcessed ==
  [][/\ ~(failed_ids_txt \subseteq failed_ids_txt') =>
         /\ pc = "remove_failed"
         /\ steps = <<"summarize", "broadcast", "persist", "save_processed">>
         /\ failed_ids_txt' = failed_ids_txt \ {entry.id}
     /\ C34_OnlyProcessedLeaveFailed']_vars

\* the run has ended; of the two ids that were in the failed ledger one was
\* processed and removed, the other was resolved in vain and is still there
C34_Witness ==
  /\ pc = "done"
  /\ start_failed = {1, 2}
  /\ failed_ids_txt = {2}
  /\ 1 \in completed
  /\ 2 \in unresolved

C37_TranscriptOrMessage ==
  ypc = "returned" =>
    /\ (yresult.transcript # NoText) <=> (yresult.message = NoText)
    /\ yresult.transcript # <<>>

\* the listing was found, the track fetched, and the texts of its entries,
\* joined and stripped, were returned without a message
C37_Witness ==
  /\ ypc = "returned"
  /\ transcript_obj # 0
  /\ yresult.transcript = <<ToString(transcript_obj), " ", "b">>
  /\ yresult.message = NoText

\* the calls in which load_whisper_model was called
LoadCalls ==
  { i \in 1..Len(whisper_calls) : whisper_calls[i].load # "not called" }

\* C38: whisper.load_model is called at most once in a process; after a
\* call of load_whisper_model that raised for an ImportError or for an
\* error of whisper.load_model, every later call raises RuntimeError and
\* attempts neither the import nor the load; after a call that returned a
\* model, every later call returns that model and does not load.
C38_LoadedAtMostOnce ==
  /\ loads <= 1
  /\ \A i \in LoadCalls, j \in LoadCalls :
       i < j =>
         LET first == whisper_calls[i]
             later == whisper_calls[j]
         IN  /\ first.load = "RuntimeError" =>
                  /\ later.load = "RuntimeError"
                  /\ ~later.imported /\ ~later.loaded
             /\ first.load = "returned" =>
                  /\ later.load = "returned"
                  /\ later.model = first.model
                  /\ ~later.loaded

\* a call in which whisper.load_model raised
\* is followed by a call that raised without importing
C38_Witness ==
  /\ wpc = "idle"
  /\ Len(whisper_calls) = 2
  /\ whisper_calls[1].loaded /\ whisper_calls[1].load = "RuntimeError"
  /\ whisper_calls[1].error = WhisperMessage.load_failed
  /\ whisper_calls[2].load = "RuntimeError"
  /\ whisper_calls[2].error = WhisperMessage.failed_earlier
  /\ ~whisper_calls[2].imported

\* the two literals get_article_text returns in place of a text
FallbackLiterals == {NoArticleBody, NoValidContent}

\* the run has handled the entry it was given as a resolved item with
\* `text` as its content: it has yielded it and broadcast it with that
\* content, and unless a file operation has raised, has persisted it with
\* that content, its id is in the processed ledger and not in the failed one
HandledAsResolved(run, text) ==
  LET item_id == run.events[1].id IN
  /\ Len(run.events) >= 3
  /\ run.events[2] = Event("yield", item_id, text)
  /\ run.events[3] = Event("broadcast", item_id, text)
  /\ run.pc # "crashed" =>
       /\ Len(run.events) = 4
       /\ run.events[4] = Event("persist", item_id, text)
       /\ item_id \in run.processed_txt
       /\ item_id \notin run.failed_txt

\* C36: an item for which get_article_text returns one of its two fallback
\* literals is yielded and broadcast with the literal as its content and,
\* unless a file operation raises, persisted with it, its id is then in the
\* processed ledger and not in the failed ledger; and a run that starts
\* with an id in the processed ledger never calls the resolver on it.
C36_LiteralIsContent ==
  \A c \in 1..2 :
    /\ \A i \in 1..Len(twin[c].events) :
         twin[c].events[i].id \notin twin[c].processed_ids
    /\ (/\ twin[c].events # <<>>
        /\ twin[c].events[1].content \in FallbackLiterals)
         => HandledAsResolved(twin[c], twin[c].events[1].content)

\* a run has ended in which id 1, in the failed ledger at the start, was
\* resolved to the literal of the missing article body and persisted with
\* it, and id 2, in the processed ledger at the start, was passed over
C36_Witness ==
  /\ twin[1].pc = "done"
  /\ twin[1].failed_ids = {1}
  /\ 2 \in twin[1].processed_ids
  /\ twin_taken = 2
  /\ twin[1].events =
       <<Event("resolve", 1, NoArticleBody), Event("yield", 1, NoArticleBody),
         Event("broadcast", 1, NoArticleBody),
         Event("persist", 1, NoArticleBody)>>
  /\ twin[1].processed_txt = {1, 2}
  /\ twin[1].failed_txt = {}

====
